---------------------------- MODULE Spec2Model ----------------------------
(***************************************************************************)
(* Model of the screenshot capture engine: src/src/winshot.ts (process     *)
(* runner, resolver, window locator, strategy selector, screenshotApp) and *)
(* src/unnamed/part_000 (the exported operations runScreenshot,            *)
(* listRunningApps, captureRegion and the embedding helpers).              *)
(*                                                                         *)
(* Strings whose content matters are sequences of one-character strings.   *)
(* An optional value is a sequence of length 0 (undefined / unset / NaN)   *)
(* or 1 (the value).                                                       *)
(***************************************************************************)
EXTENDS Integers, Sequences, FiniteSets, TLC

\* ------------------------------------------------------------------ bounds
\* Largest file size / threshold enumerated for the embedding helpers.
MaxSize == 12

\* ------------------------------------------------------- program constants
DEFAULT_INLINE_MAX == 1000000

\* ------------------------------------------------------------ option values
None == <<>>
Some(v) == <<v>>
IsSome(o) == Len(o) = 1
Get(o) == o[1]

\* ------------------------------------------------------------ string helpers
Digits == {"0", "1", "2", "3", "4", "5", "6", "7", "8", "9"}

DigitVal(c) ==
    CASE c = "0" -> 0 [] c = "1" -> 1 [] c = "2" -> 2 [] c = "3" -> 3
      [] c = "4" -> 4 [] c = "5" -> 5 [] c = "6" -> 6 [] c = "7" -> 7
      [] c = "8" -> 8 [] c = "9" -> 9

\* white space: a blank or the newline that ends a subprocess's output
IsSpace(c) == c \in {" ", "\n"}

RECURSIVE TrimLeft(_)
TrimLeft(s) == IF s # <<>> /\ IsSpace(Head(s)) THEN TrimLeft(Tail(s)) ELSE s

RECURSIVE TrimRight(_)
TrimRight(s) ==
    IF s # <<>> /\ IsSpace(s[Len(s)]) THEN TrimRight(SubSeq(s, 1, Len(s) - 1)) ELSE s

\* String.prototype.trim
Trim(s) == TrimRight(TrimLeft(s))

RECURSIVE DecimalValue(_, _)
DecimalValue(s, acc) ==
    IF s = <<>> THEN acc ELSE DecimalValue(Tail(s), 10 * acc + DigitVal(Head(s)))

AllDigits(s) == \A i \in 1..Len(s) : s[i] \in Digits

\* Number(string): surrounding white space is ignored, the empty string is 0,
\* an optionally signed run of decimal digits is its value, anything else NaN
\* (None).  Only the decimal-integer part of the grammar is modelled.
Number(s) ==
    LET t == Trim(s) IN
    IF t = <<>> THEN Some(0)
    ELSE IF t[1] = "-" /\ Len(t) > 1 /\ AllDigits(Tail(t)) THEN Some(0 - DecimalValue(Tail(t), 0))
    ELSE IF t[1] = "+" /\ Len(t) > 1 /\ AllDigits(Tail(t)) THEN Some(DecimalValue(Tail(t), 0))
    ELSE IF AllDigits(t) THEN Some(DecimalValue(t, 0))
    ELSE None

\* ------------------------------------------------- embedding helper functions
\* resolveInlineMaxBytes(override) with process.env.MCP_SCREENSHOT_EMBED_MAX_BYTES
\* passed as envVal (None when the variable is unset).
resolveInlineMaxBytes_IgnoreOverride(override, envVal) ==
    IF IsSome(envVal) /\ Get(envVal) # <<>>
          /\ IsSome(Number(Get(envVal))) /\ Get(Number(Get(envVal))) > 0
    THEN Get(Number(Get(envVal)))
    ELSE IF IsSome(override) THEN Get(override)
    ELSE DEFAULT_INLINE_MAX

resolveInlineMaxBytes(override, envVal) ==
    IF IsSome(override) THEN Get(override)
    ELSE IF IsSome(envVal) /\ Get(envVal) # <<>>
              /\ IsSome(Number(Get(envVal))) /\ Get(Number(Get(envVal))) > 0
         THEN Get(Number(Get(envVal)))
    ELSE DEFAULT_INLINE_MAX

\* shouldEmbed(size, threshold, force); force is an optional boolean.
shouldEmbed_Strict(size, threshold, force) ==
    IF IsSome(force) /\ Get(force) THEN size <= threshold ELSE size < threshold

\* Mutation: an explicit request embeds whatever the size.
shouldEmbed_ForceRelaxes(size, threshold, force) ==
    IF IsSome(force) /\ Get(force) THEN TRUE ELSE size <= threshold

shouldEmbed(size, threshold, force) ==
    IF IsSome(force) /\ Get(force) THEN size <= threshold ELSE size <= threshold


\* ------------------------------------------------------------------- strings
\* A string is a sequence of tokens; application names are spelled letter by
\* letter so that substring tests and case folding act on them.
Lower(c) == CASE c = "A" -> "a" [] c = "B" -> "b" [] OTHER -> c

LowerStr(s) == [i \in 1..Len(s) |-> Lower(s[i])]

\* a.includes(b) / AppleScript "a contains b" on exact characters
Contains(a, b) ==
    \E i \in 0..(Len(a) - Len(b)) : \A j \in 1..Len(b) : a[i + j] = b[j]

RECURSIVE JoinComma(_)
\* AppleScript prints a list as its items separated by ", "
JoinComma(names) ==
    IF names = <<>> THEN <<>>
    ELSE IF Len(names) = 1 THEN names[1]
    ELSE names[1] \o <<",", " ">> \o JoinComma(Tail(names))

RECURSIVE SplitComma(_, _)
\* String.prototype.split(","): cur is the piece being collected
SplitComma(s, cur) ==
    IF s = <<>> THEN <<cur>>
    ELSE IF Head(s) = "," THEN <<cur>> \o SplitComma(Tail(s), <<>>)
    ELSE SplitComma(Tail(s), Append(cur, Head(s)))

RECURSIVE FilterNonEmpty(_)
FilterNonEmpty(xs) ==
    IF xs = <<>> THEN <<>>
    ELSE IF Head(xs) = <<>> THEN FilterNonEmpty(Tail(xs))
    ELSE <<Head(xs)>> \o FilterNonEmpty(Tail(xs))

\* stdout.split(",").map(s => s.trim()).filter(Boolean)
ParseAppList(stdout) ==
    LET pieces == SplitComma(stdout, <<>>) IN
    FilterNonEmpty([i \in 1..Len(pieces) |-> Trim(pieces[i])])

\* ------------------------------------------- text handed to osascript and sh
RECURSIVE Esc(_)
\* esc: s.replace(/"/g, '\\"')
Esc(s) ==
    IF s = <<>> THEN <<>>
    ELSE IF Head(s) = "\"" THEN <<"\\", "\"">> \o Esc(Tail(s))
    ELSE <<Head(s)>> \o Esc(Tail(s))

RECURSIVE ReadLiteralFrom(_, _)
\* How AppleScript reads the text placed between two double quotes: a
\* backslash takes the next character as data, a bare double quote ends the
\* string and whatever follows it (rest) is read as script code.
ReadLiteralFrom(t, acc) ==
    IF t = <<>> THEN [value |-> acc, closedEarly |-> FALSE, rest |-> <<>>]
    ELSE IF Head(t) = "\\" /\ Len(t) >= 2 THEN ReadLiteralFrom(Tail(Tail(t)), Append(acc, t[2]))
    ELSE IF Head(t) = "\"" THEN [value |-> acc, closedEarly |-> TRUE, rest |-> Tail(t)]
    ELSE ReadLiteralFrom(Tail(t), Append(acc, Head(t)))

ReadLiteral(t) == ReadLiteralFrom(t, <<>>)

RECURSIVE QuoteBody(_)
QuoteBody(v) ==
    IF v = <<>> THEN <<>>
    ELSE IF Head(v) = "'" THEN <<"'", "\\", "'", "'">> \o QuoteBody(Tail(v))
    ELSE <<Head(v)>> \o QuoteBody(Tail(v))

\* AppleScript's "quoted form of v"
QuotedForm(v) == <<"'">> \o QuoteBody(v) \o <<"'">>

\* script2's: do shell script "echo " & quoted form of v & " | tr '[:upper:]' '[:lower:]'"
ShellLine(v) ==
    <<"echo", " ">> \o QuotedForm(v)
        \o <<" ", "|", " ", "tr", " ", "'", "[:upper:]", "'", " ", "'", "[:lower:]", "'">>

\* "backquote" stands for the one character that opens a command substitution
ShellOperators == {";", "&", "|", "$(", ")", "backquote"}

RECURSIVE ShellWordsFrom(_, _, _, _)
\* What sh makes of a command line: its unquoted operators and, for each
\* word, the word's first unquoted token, or "<arg>" when it starts quoted.
ShellWordsFrom(line, quoted, inWord, acc) ==
    IF line = <<>> THEN acc
    ELSE IF quoted
         THEN ShellWordsFrom(Tail(line), Head(line) # "'", TRUE, acc)
    ELSE IF Head(line) = "'"
         THEN ShellWordsFrom(Tail(line), TRUE, TRUE, IF inWord THEN acc ELSE Append(acc, "<arg>"))
    ELSE IF Head(line) = "\\" /\ Len(line) >= 2
         THEN ShellWordsFrom(Tail(Tail(line)), FALSE, TRUE, IF inWord THEN acc ELSE Append(acc, "<arg>"))
    ELSE IF Head(line) = " "
         THEN ShellWordsFrom(Tail(line), FALSE, FALSE, acc)
    ELSE IF Head(line) \in ShellOperators
         THEN ShellWordsFrom(Tail(line), FALSE, FALSE, Append(acc, Head(line)))
    ELSE ShellWordsFrom(Tail(line), FALSE, TRUE, IF inWord THEN acc ELSE Append(acc, Head(line)))

ShellWords(line) == ShellWordsFrom(line, FALSE, FALSE, <<>>)

\* ----------------------------------------------------- the resolver's scripts
NOT_FOUND == <<"NOT_FOUND">>

\* AppleScript compares text ignoring case unless told "considering case";
\* neither script says so.
ScriptContains(a, b) == Contains(LowerStr(a), LowerStr(b))

RECURSIVE FirstMatch_OneWay(_, _)
\* Mutation: only "the name contains the input" is tested.
FirstMatch_OneWay(names, input) ==
    IF names = <<>> THEN None
    ELSE IF ScriptContains(Head(names), input) THEN Some(Head(names))
    ELSE FirstMatch_OneWay(Tail(names), input)

RECURSIVE FirstMatch(_, _)
\* "repeat with processName in allProcesses ... return processName"
FirstMatch(names, input) ==
    IF names = <<>> THEN None
    ELSE IF ScriptContains(Head(names), input) \/ ScriptContains(input, Head(names))
         THEN Some(Head(names))
    ELSE FirstMatch(Tail(names), input)

RECURSIVE FirstEqual(_, _)
FirstEqual(names, input) ==
    IF names = <<>> THEN None
    ELSE IF LowerStr(Head(names)) = LowerStr(input) THEN Some(Head(names))
    ELSE FirstEqual(Tail(names), input)

\* script1 of resolveActualAppName: what the script returns for a process list
Script1(names, input) ==
    IF IsSome(FirstMatch(names, input)) THEN Get(FirstMatch(names, input))
    ELSE IF IsSome(FirstEqual(names, input)) THEN Get(FirstEqual(names, input))
    ELSE NOT_FOUND

RECURSIVE FirstLowerMatch(_, _)
FirstLowerMatch(names, input) ==
    IF names = <<>> THEN None
    ELSE IF Contains(LowerStr(Head(names)), LowerStr(input))
              \/ Contains(LowerStr(input), LowerStr(Head(names)))
         THEN Some(Head(names))
    ELSE FirstLowerMatch(Tail(names), input)

\* script2 of resolveActualAppName
Script2(names, input) ==
    IF IsSome(FirstLowerMatch(names, input)) THEN Get(FirstLowerMatch(names, input))
    ELSE NOT_FOUND


\* ------------------------------------------------------- capture strategy
StartsWith(s, prefix) == s # <<>> /\ s[1] = prefix

\* A diagnostic line: its fixed text and the values interpolated into it.
Line(t, a) == [t |-> t, a |-> a, n |-> <<>>]
NumLine(t, n) == [t |-> t, a |-> <<>>, n |-> n]

\* The branch of captureWithStrategy taken for (strategy, windowInfo): the
\* screencapture option, its value, the method recorded and the lines pushed.
ById(windowInfo) ==
    [flag |-> "-l", val |-> Tail(windowInfo), method |-> "window-id",
     lines |-> <<Line("Using window ID method", Tail(windowInfo))>>]

ByBounds(windowInfo) ==
    [flag |-> "-R", val |-> Tail(windowInfo), method |-> "bounds",
     lines |-> <<Line("Using bounds method", Tail(windowInfo))>>]

Interactive(why) ==
    [flag |-> "-i", val |-> <<>>, method |-> "interactive",
     lines |-> <<Line(why, <<>>), Line("Click on the app window or area", <<>>)>>]

Frontmost(why) ==
    [flag |-> "-w", val |-> <<>>, method |-> "frontmost",
     lines |-> <<Line(why, <<>>)>>]

\* Mutation: the bounds strategy also accepts a window id.
SelectCapture_BoundsTakesId(strategy, windowInfo) ==
    IF strategy = "id" THEN
        IF StartsWith(windowInfo, "WINDOW_ID:") THEN ById(windowInfo)
        ELSE Frontmost("Window ID not available, falling back to frontmost window")
    ELSE IF strategy = "bounds" THEN
        IF StartsWith(windowInfo, "BOUNDS:") THEN ByBounds(windowInfo)
        ELSE IF StartsWith(windowInfo, "WINDOW_ID:") THEN ById(windowInfo)
        ELSE Frontmost("Window bounds not available, falling back to frontmost window")
    ELSE IF strategy = "interactive" THEN Interactive("Starting interactive selection...")
    ELSE IF StartsWith(windowInfo, "WINDOW_ID:") THEN ById(windowInfo)
    ELSE IF StartsWith(windowInfo, "BOUNDS:") THEN ByBounds(windowInfo)
    ELSE IF windowInfo = <<"NO_WINDOWS">>
         THEN Interactive("App has no windows. Starting interactive selection...")
    ELSE Frontmost("Falling back to frontmost window capture")

SelectCapture(strategy, windowInfo) ==
    IF strategy = "id" THEN
        IF StartsWith(windowInfo, "WINDOW_ID:") THEN ById(windowInfo)
        ELSE Frontmost("Window ID not available, falling back to frontmost window")
    ELSE IF strategy = "bounds" THEN
        IF StartsWith(windowInfo, "BOUNDS:") THEN ByBounds(windowInfo)
        ELSE Frontmost("Window bounds not available, falling back to frontmost window")
    ELSE IF strategy = "interactive" THEN Interactive("Starting interactive selection...")
    ELSE IF StartsWith(windowInfo, "WINDOW_ID:") THEN ById(windowInfo)
    ELSE IF StartsWith(windowInfo, "BOUNDS:") THEN ByBounds(windowInfo)
    ELSE IF windowInfo = <<"NO_WINDOWS">>
         THEN Interactive("App has no windows. Starting interactive selection...")
    ELSE Frontmost("Falling back to frontmost window capture")

\* ------------------------------------------------------------ result values
Lit(s) == [lit |-> s]
Str(s) == [str |-> s]
Num(n) == [num |-> n]
Path(p) == [path |-> p]

TextItem(parts) == [type |-> "text", text |-> parts]
\* Mutation: the image item is labelled with another mime type.
ImageItem_Jpeg(bytes) == [type |-> "image", mimeType |-> "image/jpeg", data |-> [base64 |-> bytes]]

ImageItem(bytes) == [type |-> "image", mimeType |-> "image/png", data |-> [base64 |-> bytes]]

ErrorResult(parts) == [content |-> <<TextItem(parts)>>, isError |-> TRUE]
OkResult(items) == [content |-> items, isError |-> FALSE]

\* Math.round(n / 1024) for n >= 0
RoundKB(n) == (2 * n + 1024) \div 2048

\* getUnsupportedPlatformMessage() on a platform without capture support
UnsupportedMessage == <<Lit("Screenshot functionality is not available on "), Lit("<platform>")>>


\* ------------------------------------------------------------ enumerated inputs
AppNames == {<<>>, <<"A", "b">>, <<"z">>, <<"\"", ";", "$(", ")", "backquote", "&", "|">>}
RunningLists == {<<>>, << <<"a", "b">> >>, << <<"B">>, <<"a", "b">> >>}
Strategies == {None, Some("auto"), Some("id"), Some("bounds"), Some("interactive")}
OverrideVals == {None, Some(10)}
OptBool == {None, Some(TRUE), Some(FALSE)}
EnvMaxVals == {None, Some(<<"1", "1">>), Some(<<"a", "b", "c">>)}
EnvStrategyVals == {None, Some("bounds")}
EnvCompressVals == {None, Some("1")}
FileSizes == {11, 1000001}
XYVals == {-1, 0}
WHVals == {-2, 0, 50}

Commands == {"osascript", "mkdir", "screencapture", "sips", "mv"}

\* ----------------------------------------------------------------- the state
VARIABLES
    supportsScreenshots,  \* platform.ts: supportsScreenshots
    env,                  \* process.env as the operation has read it: maxBytes, strategy, compress
    onPath,               \* per executable: is it found when spawned ("?" = not yet looked up)
    op,                   \* "idle", "shot", "list", "region"
    pc,                   \* where the operation stands: an await point, or "done"
    req,                  \* the operation's arguments
    loc,                  \* the operation's local variables
    proc,                 \* the subprocess being awaited
    runRes,               \* what the awaited subprocess call produced
    spawned,              \* the subprocesses the operation has spawned, in order
    fs,                   \* the output file and its temporary sibling
    reads,                \* how many times the operation read the output file's bytes
    appResult,            \* screenshotApp's AppScreenshotResult, once returned
    result,               \* the operation's result, once returned
    lastRun,              \* winshot.ts run(): "none", "pending", "returned", "threw"
    probe,                \* a helper function's arguments and value (helper specifications)
    parked                \* the other request in flight, suspended at an await (two requests)

vars == <<supportsScreenshots, env, onPath, op, pc, req, loc, proc, runRes,
          spawned, fs, reads, appResult, result, lastRun, probe, parked>>

NoProc == [state |-> "none", kind |-> "none", exe |-> "none", timer |-> FALSE,
           timeoutMs |-> 0, mode |-> "none"]

NoReq == [appName |-> <<>>, compress |-> FALSE, windowStrategy |-> None,
          returnData |-> None, inlineMaxBytes |-> None,
          x |-> 0, y |-> 0, width |-> 0, height |-> 0]

NoLoc == [strategy |-> "", actualApp |-> None, windowInfo |-> <<>>, filename |-> None,
          sel |-> None, lines |-> <<>>, original |-> None]

NoFs == [out |-> None, tmp |-> None]

NoProbe == [f |-> "none", args |-> <<>>, value |-> <<>>]

\* An environment variable that the operation under way has not read yet.  It
\* takes its value where the code first reads it and keeps it until the
\* operation returns.
Unread == <<"unread", "unread">>
NoEnv == [maxBytes |-> Unread, strategy |-> Unread, compress |-> Unread]
Seen(current, values) == IF current = Unread THEN values ELSE {current}

Idle ==
    /\ op = "idle" /\ pc = "idle" /\ req = NoReq /\ loc = NoLoc /\ proc = NoProc
    /\ runRes = None /\ spawned = <<>> /\ fs = NoFs /\ reads = 0
    /\ appResult = None /\ result = None /\ lastRun = "none"
    /\ onPath = [c \in Commands |-> "?"]
    /\ env = NoEnv

\* What a request owns: its arguments, its local variables, the subprocess it
\* awaits and its output file.
Current ==
    [op |-> op, pc |-> pc, req |-> req, loc |-> loc, proc |-> proc, runRes |-> runRes,
     spawned |-> spawned, fs |-> fs, reads |-> reads, appResult |-> appResult,
     result |-> result, lastRun |-> lastRun]

NoCtx ==
    [op |-> "idle", pc |-> "idle", req |-> NoReq, loc |-> NoLoc, proc |-> NoProc, runRes |-> None,
     spawned |-> <<>>, fs |-> NoFs, reads |-> 0, appResult |-> None,
     result |-> None, lastRun |-> "none"]

Init ==
    /\ supportsScreenshots \in BOOLEAN
    /\ probe = NoProbe
    /\ parked = NoCtx
    /\ Idle

\* ------------------------------------------------------- the subprocess calls
\* Deadlines, in milliseconds.
RUN_DEFAULT_TIMEOUT == 10000
RESOLVE_TIMEOUT == 7000
LIST_TIMEOUT == 6000
WINDOW_TIMEOUT == 6000
FRONT_TIMEOUT == 4000
CAPTURE_TIMEOUT == 12000
SIPS_TIMEOUT == 8000
RACE_TIMEOUT == 10000

\* What is spawned at each await point.  mode "run" is winshot.ts run();
\* "race" is Bun.spawn raced against a rejecting timer; "bare" is Bun.spawn
\* followed by "await proc.exited" alone (timeoutMs 0: no timer is set).
SpawnOf(p) ==
    CASE p = "resolve1" -> [exe |-> "osascript", mode |-> "run", timeoutMs |-> RESOLVE_TIMEOUT]
      [] p = "resolve2" -> [exe |-> "osascript", mode |-> "run", timeoutMs |-> RESOLVE_TIMEOUT]
      [] p = "list"     -> [exe |-> "osascript", mode |-> "run", timeoutMs |-> LIST_TIMEOUT]
      [] p = "window"   -> [exe |-> "osascript", mode |-> "run", timeoutMs |-> WINDOW_TIMEOUT]
      [] p = "front"    -> [exe |-> "osascript", mode |-> "run", timeoutMs |-> FRONT_TIMEOUT]
      [] p = "mkdir"    -> [exe |-> "mkdir", mode |-> "run", timeoutMs |-> RUN_DEFAULT_TIMEOUT]
      [] p = "capture"  -> [exe |-> "screencapture", mode |-> "run", timeoutMs |-> CAPTURE_TIMEOUT]
      [] p = "sips"     -> [exe |-> "sips", mode |-> "run", timeoutMs |-> SIPS_TIMEOUT]
      [] p = "mv"       -> [exe |-> "mv", mode |-> "run", timeoutMs |-> RUN_DEFAULT_TIMEOUT]
      [] p = "listapps" -> [exe |-> "osascript", mode |-> "race", timeoutMs |-> RACE_TIMEOUT]
      [] p = "rmkdir"   -> [exe |-> "mkdir", mode |-> "bare", timeoutMs |-> 0]
      [] p = "rcapture" -> [exe |-> "screencapture", mode |-> "race", timeoutMs |-> RACE_TIMEOUT]
      [] p = "rsips"    -> [exe |-> "sips", mode |-> "bare", timeoutMs |-> 0]

SpawnPcs == {"resolve1", "resolve2", "list", "window", "front", "mkdir", "capture",
             "sips", "mv", "listapps", "rmkdir", "rcapture", "rsips"}


\* ------------------------------------------------------------------ file names
RECURSIVE SafeName(_)
\* actualAppName.replace(/\s+/g, "_")
SafeName(s) ==
    IF s = <<>> THEN <<>>
    ELSE IF IsSpace(Head(s)) THEN <<"_">> \o SafeName(TrimLeft(s))
    ELSE <<Head(s)>> \o SafeName(Tail(s))

\* buildFilename(dir, actualAppName)
buildFilename(actualAppName) ==
    [dir |-> "Desktop/Screenshots", kind |-> "app", name |-> SafeName(actualAppName),
     rect |-> <<>>, ext |-> ".png"]

\* Mutation: the file name leaves the height out.
RegionFilename_NoHeight(x, y, width, height) ==
    [dir |-> "Desktop/Screenshots", kind |-> "region", name |-> <<>>,
     rect |-> <<x, y, width, width>>, ext |-> ".png"]

\* captureRegion's filename
RegionFilename(x, y, width, height) ==
    [dir |-> "Desktop/Screenshots", kind |-> "region", name |-> <<>>,
     rect |-> <<x, y, width, height>>, ext |-> ".png"]

\* ------------------------------------------------------------------- embedding
\* embedFileContent(path, label, {inlineMaxBytes, force}): the result and how
\* many times the file's bytes were read.  file is None when statSync throws.
embedFileContent(file, path, label, inlineMaxBytes, force, envVal) ==
    IF ~IsSome(file)
    THEN [res |-> OkResult(<<TextItem(<<Lit(label), Path(path), Lit(" (embedding failed: "),
                                         Lit("ENOENT"), Lit(")")>>)>>),
          read |-> 0]
    ELSE LET size == Get(file).size
             threshold == resolveInlineMaxBytes(inlineMaxBytes, envVal)
         IN IF shouldEmbed(size, threshold, force)
            THEN [res |-> OkResult(<<ImageItem(Get(file)),
                                     TextItem(<<Lit(label), Path(path), Lit(" (embedded inline, "),
                                                Num(RoundKB(size)), Lit(" KB)")>>)>>),
                  read |-> 1]
            ELSE [res |-> OkResult(<<TextItem(<<Lit(label), Path(path), Lit(" (not embedded; "),
                                                Num(RoundKB(size)), Lit(" KB exceeds "),
                                                Num(RoundKB(resolveInlineMaxBytes(inlineMaxBytes, envVal))),
                                                Lit(" KB limit)")>>)>>),
                  read |-> 0]

\* ------------------------------------------------- screenshotApp's return values
BASE64_MAX == 1048576

AppFail(lines, error) ==
    [success |-> FALSE, path |-> None, dataUri |-> None, method |-> None,
     stdout |-> lines, error |-> error, tooLargeForData |-> FALSE]

AppOk(lines, path, method, dataUri, tooLarge) ==
    [success |-> TRUE, path |-> Some(path), dataUri |-> dataUri, method |-> Some(method),
     stdout |-> lines, error |-> <<>>, tooLargeForData |-> tooLarge]

\* screenshotApp from "Done!" to its return: the result and the reads made.
AppTail(l, file, returnData) ==
    LET lines == Append(l.lines, Line("Done!", <<>>))
        path == Get(l.filename)
        method == Get(l.sel).method
    IN IF IsSome(returnData) /\ Get(returnData)
       THEN IF ~IsSome(file)
            THEN [sres |-> AppOk(Append(lines, Line("Failed to base64 encode", <<>>)),
                                 path, method, None, FALSE),
                  read |-> 0]
            ELSE IF Get(file).size > BASE64_MAX
            THEN [sres |-> AppOk(Append(lines, NumLine("File too large for base64 encoding",
                                                       <<RoundKB(Get(file).size)>>)),
                                 path, method, None, TRUE),
                  read |-> 0]
            ELSE [sres |-> AppOk(lines, path, method, Some(Get(file)), FALSE), read |-> 1]
       ELSE [sres |-> AppOk(lines, path, method, None, FALSE), read |-> 0]

\* Mutation: a failed screenshotApp result is passed on without the error flag.
RunScreenshotTail_FailureNotFlagged(sres, file, r, envVal) ==
    IF ~sres.success
    THEN [res |-> OkResult(<<TextItem(<<Lit("Screenshot failed: "),
                                        Str(IF sres.error # <<>> THEN sres.error ELSE <<"Unknown error">>)>>)>>),
          read |-> 0]
    ELSE IF IsSome(sres.path) /\ IsSome(file)
    THEN embedFileContent(file, Get(sres.path), "Screenshot successfully taken and saved to: ",
                          r.inlineMaxBytes, r.returnData, envVal)
    ELSE [res |-> OkResult(<<TextItem(<<Lit("Screenshot successfully taken and saved to: "),
                                         Path(Get(sres.path))>>)>>),
          read |-> 0]

\* runScreenshot after screenshotApp has returned sres.
RunScreenshotTail(sres, file, r, envVal) ==
    IF ~sres.success
    THEN [res |-> ErrorResult(<<Lit("Screenshot failed: "),
                                Str(IF sres.error # <<>> THEN sres.error ELSE <<"Unknown error">>)>>),
          read |-> 0]
    ELSE IF IsSome(sres.path) /\ IsSome(file)
    THEN embedFileContent(file, Get(sres.path), "Screenshot successfully taken and saved to: ",
                          r.inlineMaxBytes, r.returnData, envVal)
    ELSE [res |-> OkResult(<<TextItem(<<Lit("Screenshot successfully taken and saved to: "),
                                         Path(Get(sres.path))>>)>>),
          read |-> 0]

\* The catch blocks of the three exported operations.
CatchResult(o, message) ==
    IF message = "[TIMEOUT]"
    THEN CASE o = "shot"   -> ErrorResult(<<Lit("Screenshot failed: "), Lit("[TIMEOUT]"), Lit(" Operation exceeded 15 second timeout")>>)
           [] o = "list"   -> ErrorResult(<<Lit("App listing failed: "), Lit("[TIMEOUT]"), Lit(" Operation exceeded 10 second timeout")>>)
           [] o = "region" -> ErrorResult(<<Lit("Region capture failed: "), Lit("[TIMEOUT]"), Lit(" Operation exceeded 10 second timeout")>>)
    ELSE CASE o = "shot"   -> ErrorResult(<<Lit("Error taking screenshot: "), Lit(message)>>)
           [] o = "list"   -> ErrorResult(<<Lit("Error listing running apps: "), Lit(message)>>)
           [] o = "region" -> ErrorResult(<<Lit("Error capturing region: "), Lit(message)>>)


\* ------------------------------------------------------ what a subprocess does
NoFx == [k |-> "none", size |-> 0]
Fx(k, size) == [k |-> k, size |-> size]
Out(code, stdout, stderr, fx) == [code |-> code, stdout |-> stdout, stderr |-> stderr, fx |-> fx]

NL == <<"\n">>
ERR == <<"execution error", "\n">>

\* The ways the subprocess awaited at p can exit: exit code, output, and what
\* it did to the files.  names is the OS's list of foreground processes, in
\* its order, at the time of a query.  A script wrapped in "try ... end try" that hits an
\* error prints nothing and exits 0.
Outcomes(p, names) ==
    CASE p = "resolve1" -> {Out(0, Script1(names, ReadLiteral(Esc(req.appName)).value) \o NL, <<>>, NoFx),
                            Out(0, <<>>, <<>>, NoFx), Out(1, <<>>, ERR, NoFx)}
      [] p = "resolve2" -> {Out(0, Script2(names, ReadLiteral(Esc(req.appName)).value) \o NL, <<>>, NoFx),
                            Out(0, <<>>, <<>>, NoFx), Out(1, <<>>, ERR, NoFx)}
      [] p \in {"list", "listapps"} ->
                           {Out(0, JoinComma(names) \o NL, <<>>, NoFx), Out(1, <<>>, ERR, NoFx),
                            Out(1, <<>>, <<>>, NoFx)}
      [] p = "window"   -> {Out(0, <<"WINDOW_ID:", "42">> \o NL, <<>>, NoFx),
                            Out(0, <<"BOUNDS:", "1,2,3,4">> \o NL, <<>>, NoFx),
                            Out(0, <<"NO_WINDOWS">> \o NL, <<>>, NoFx),
                            Out(0, <<>>, <<>>, NoFx), Out(1, <<>>, ERR, NoFx)}
      [] p \in {"front", "mkdir", "rmkdir"} -> {Out(0, <<>>, <<>>, NoFx), Out(1, <<>>, ERR, NoFx)}
      [] p \in {"capture", "rcapture"} ->
                           {Out(0, <<>>, <<>>, Fx("write_out", n)) : n \in FileSizes}
                           \cup {Out(0, <<>>, <<>>, NoFx), Out(1, <<>>, ERR, NoFx),
                                 Out(1, <<>>, <<>>, NoFx)}
      [] p = "sips"     -> {Out(0, <<>>, <<>>, Fx("write_tmp", n)) : n \in FileSizes}
                           \cup {Out(0, <<>>, <<>>, NoFx), Out(1, <<>>, ERR, NoFx)}
      [] p = "mv"       -> {Out(0, <<>>, <<>>, Fx("mv", 0)), Out(1, <<>>, ERR, NoFx)}
      [] p = "rsips"    -> {Out(0, <<>>, <<>>, Fx("rewrite_out", n)) : n \in FileSizes}
                           \cup {Out(1, <<>>, ERR, NoFx)}

ApplyFx(f, fx) ==
    CASE fx.k = "none" -> f
      [] fx.k = "write_out" -> [f EXCEPT !.out = Some([size |-> fx.size, bytes |-> "captured"])]
      [] fx.k = "write_tmp" -> [f EXCEPT !.tmp = Some([size |-> fx.size, bytes |-> "recompressed"])]
      [] fx.k = "rewrite_out" -> [f EXCEPT !.out = Some([size |-> fx.size, bytes |-> "recompressed"])]
      [] fx.k = "mv" -> IF IsSome(f.tmp) THEN [out |-> f.tmp, tmp |-> None] ELSE f

\* ------------------------------------------------------------ action fragments
envVars == <<supportsScreenshots, probe, parked>>


\* go on to the await point p with locals l, having read the environment as e
GotoEnv(p, l, e) ==
    /\ pc' = p /\ loc' = l /\ proc' = NoProc /\ runRes' = None /\ env' = e
    /\ UNCHANGED <<result, appResult, reads>>

Goto(p, l) == GotoEnv(p, l, env)

\* return r to the caller, after n reads of the output file
RetEnv(r, l, ar, n, e) ==
    /\ pc' = "done" /\ loc' = l /\ result' = Some(r) /\ appResult' = ar
    /\ proc' = NoProc /\ runRes' = None /\ reads' = reads + n /\ env' = e

Ret(r, l, ar, n) == RetEnv(r, l, ar, n, env)

\* the timer's callback kills the subprocess and its rejection returns r
Killed(r) ==
    /\ pc' = "done" /\ result' = Some(r) /\ proc' = [proc EXCEPT !.state = "killed"]
    /\ UNCHANGED <<loc, appResult, runRes, reads, env>>

Push(l, line) == [l EXCEPT !.lines = Append(@, line)]

\* screenshotApp returns success and runScreenshot builds its result
\* (embedFileContent reads MCP_SCREENSHOT_EMBED_MAX_BYTES there)
FinishShotEnv(l, e0) ==
    \E ev \in Seen(e0.maxBytes, EnvMaxVals) :
        LET t == AppTail(l, fs.out, req.returnData)
            e == RunScreenshotTail(t.sres, fs.out, req, ev)
        IN RetEnv(e.res, [l EXCEPT !.lines = t.sres.stdout], Some(t.sres), t.read + e.read,
                  [e0 EXCEPT !.maxBytes = ev])

FinishShot(l) == FinishShotEnv(l, env)

\* screenshotApp returns a failure and runScreenshot builds its result
FailShot(l, error) ==
    LET sres == AppFail(l.lines, error)
    IN Ret(RunScreenshotTail(sres, fs.out, req, None).res, l, Some(sres), 0)

\* Math.round(a / b) for a >= 0, b > 0
RoundDiv(a, b) == (2 * a + b) \div (2 * b)

\* screenshotApp after compressPng has returned: the second statSync and the notice
AfterCompress(l) ==
    IF ~IsSome(fs.out)
    THEN FinishShot(Push(l, Line("Compression failed, using original file", <<>>)))
    ELSE LET original == Get(l.original)
             after == Get(fs.out).size
             savings == original - after
             pct == IF original # 0 THEN RoundDiv(savings * 100, original) ELSE 0
         IN IF after <= original
            THEN FinishShot(Push(l, NumLine("Compression complete", <<original, after, savings, pct>>)))
            ELSE FinishShot(Push(l, Line("Compression did not reduce size", <<>>)))


\* ------------------------------------------------------ Array.prototype.sort
\* a.localeCompare(b): letters are compared ignoring case first; on a tie the
\* lower-case spelling comes first.
Rank(c) == CASE c = "a" -> 1 [] c = "b" -> 2 [] c = "z" -> 26 [] OTHER -> 0

RECURSIVE LexLess(_, _)
LexLess(a, b) ==
    IF b = <<>> THEN FALSE
    ELSE IF a = <<>> THEN TRUE
    ELSE IF Rank(Head(a)) # Rank(Head(b)) THEN Rank(Head(a)) < Rank(Head(b))
    ELSE LexLess(Tail(a), Tail(b))

RECURSIVE CaseLess(_, _)
CaseLess(a, b) ==
    IF a = <<>> \/ b = <<>> THEN FALSE
    ELSE IF Head(a) # Head(b) THEN Lower(Head(a)) = Head(a)
    ELSE CaseLess(Tail(a), Tail(b))

LocaleLess(a, b) ==
    \/ LexLess(LowerStr(a), LowerStr(b))
    \/ LowerStr(a) = LowerStr(b) /\ CaseLess(a, b)

RECURSIVE Insert(_, _)
Insert(x, sorted) ==
    IF sorted = <<>> THEN <<x>>
    ELSE IF LocaleLess(x, Head(sorted)) THEN <<x>> \o sorted
    ELSE <<Head(sorted)>> \o Insert(x, Tail(sorted))

\* Mutation: the names are returned in the order of the reply.
SortNames_Unsorted(xs) == xs

RECURSIVE SortNames(_)
SortNames(xs) == IF xs = <<>> THEN <<>> ELSE Insert(xs[Len(xs)], SortNames(SubSeq(xs, 1, Len(xs) - 1)))

\* ------------------------------------------------------------ process runner
\* The argument that varies with the request (flag, val) and, for a script
\* that hands the input to "do shell script", what sh makes of that line.
SpawnArgs(p) ==
    CASE p = "capture"  -> [flag |-> Get(loc.sel).flag, val |-> Get(loc.sel).val, sh |-> <<>>]
      [] p = "rcapture" -> [flag |-> "-R", val |-> <<req.x, req.y, req.width, req.height>>, sh |-> <<>>]
      [] p = "resolve1" -> [flag |-> "-e", val |-> Esc(req.appName), sh |-> <<>>]
      [] p = "resolve2" -> [flag |-> "-e", val |-> Esc(req.appName),
                            sh |-> ShellWords(ShellLine(ReadLiteral(Esc(req.appName)).value))]
      [] p \in {"window", "front"} -> [flag |-> "-e", val |-> Esc(Get(loc.actualApp)), sh |-> <<>>]
      [] OTHER          -> [flag |-> "", val |-> <<>>, sh |-> <<>>]

\* Bun.spawn starts the subprocess; run() and the raced calls also set the timer.
SpawnStarts ==
    /\ op # "idle" /\ pc \in SpawnPcs /\ proc.state = "none"
    /\ onPath[SpawnOf(pc).exe] # "no"
    /\ onPath' = [onPath EXCEPT ![SpawnOf(pc).exe] = "yes"]
    /\ proc' = [state |-> "running", kind |-> pc, exe |-> SpawnOf(pc).exe,
                timer |-> SpawnOf(pc).mode \in {"run", "race"},
                timeoutMs |-> SpawnOf(pc).timeoutMs, mode |-> SpawnOf(pc).mode]
    /\ spawned' = Append(spawned, [kind |-> pc, exe |-> SpawnOf(pc).exe, mode |-> SpawnOf(pc).mode,
                                   timeoutMs |-> SpawnOf(pc).timeoutMs, flag |-> SpawnArgs(pc).flag,
                                   val |-> SpawnArgs(pc).val, sh |-> SpawnArgs(pc).sh])
    /\ lastRun' = IF SpawnOf(pc).mode = "run" THEN "pending" ELSE lastRun
    /\ UNCHANGED <<envVars, env, op, pc, req, loc, runRes, fs, reads, appResult, result>>

\* Bun.spawn throws when the executable cannot be found.  Inside run() nothing
\* catches it: the spawn precedes run()'s try block.  screenshotApp catches
\* what compressPng throws; otherwise the operation's catch block answers.
SpawnThrows ==
    /\ op # "idle" /\ pc \in SpawnPcs /\ proc.state = "none"
    /\ onPath[SpawnOf(pc).exe] # "yes"
    /\ onPath' = [onPath EXCEPT ![SpawnOf(pc).exe] = "no"]
    /\ lastRun' = IF SpawnOf(pc).mode = "run" THEN "threw" ELSE lastRun
    /\ IF op = "shot" /\ pc \in {"sips", "mv"}
       THEN FinishShot(Push(loc, Line("Compression failed, using original file", <<>>)))
       ELSE Ret(CatchResult(op, "ENOENT"), loc, appResult, 0)
    /\ UNCHANGED <<envVars, op, req, spawned, fs>>

\* The subprocess exits before any deadline.
ProcExit ==
    /\ proc.state = "running"
    /\ \E names \in RunningLists :
        \E o \in Outcomes(pc, names) :
            /\ fs' = ApplyFx(fs, o.fx)
            /\ runRes' = Some([stdout |-> o.stdout, stderr |-> o.stderr, code |-> o.code])
    /\ proc' = [proc EXCEPT !.state = "exited"]
    /\ lastRun' = IF proc.mode = "run" THEN "returned" ELSE lastRun
    /\ UNCHANGED <<envVars, env, onPath, op, pc, req, loc, spawned, reads, appResult, result>>

TIMEOUT_CODE == 124

\* Mutation: the deadline is reported as a plain failure without the sentinel text.
RunDeadline_NoSentinel ==
    /\ proc.state = "running" /\ proc.timer /\ proc.mode = "run"
    /\ proc' = [proc EXCEPT !.state = "killed"]
    /\ runRes' = Some([stdout |-> <<>>, stderr |-> <<>>, code |-> 1])
    /\ lastRun' = "returned"
    /\ UNCHANGED <<envVars, env, onPath, op, pc, req, loc, spawned, fs, reads, appResult, result>>

\* run()'s timer fires first: the subprocess is killed and the sentinel returned.
RunDeadline ==
    /\ proc.state = "running" /\ proc.timer /\ proc.mode = "run"
    /\ proc' = [proc EXCEPT !.state = "killed"]
    /\ runRes' = Some([stdout |-> <<>>, stderr |-> <<"[TIMEOUT]">>, code |-> TIMEOUT_CODE])
    /\ lastRun' = "returned"
    /\ UNCHANGED <<envVars, env, onPath, op, pc, req, loc, spawned, fs, reads, appResult, result>>

\* The timer of a raced call fires first: the subprocess is killed and the
\* rejection reaches the operation's catch block.
RaceDeadline ==
    /\ proc.state = "running" /\ proc.timer /\ proc.mode = "race"
    /\ Killed(CatchResult(op, "[TIMEOUT]"))
    /\ UNCHANGED <<envVars, onPath, op, req, spawned, fs, lastRun>>

Returned == proc.state \in {"exited", "killed"} /\ IsSome(runRes)

frame == <<envVars, onPath, op, req, spawned, fs, lastRun>>


\* ------------------------------------------------------- capture by name
OrElse(a, b) == IF a # <<>> THEN a ELSE b

\* Mutation: WINDOW_STRATEGY is not consulted.
EffectiveStrategy_EnvIgnored(st, es) == IF IsSome(st) THEN Get(st) ELSE "auto"

\* opts.strategy || process.env.WINDOW_STRATEGY || "auto"; es is looked at
\* only when the request gives no strategy
EffectiveStrategy(st, es) ==
    IF IsSome(st) THEN Get(st)
    ELSE IF IsSome(es) THEN Get(es)
    ELSE "auto"

\* Mutation: screenshotApp without its check of the name.
RunScreenshot_NoNameCheck ==
    /\ op = "idle"
    /\ \E n \in AppNames, c \in BOOLEAN, st \in Strategies, rd \in OptBool, imb \in OverrideVals :
        /\ req' = [NoReq EXCEPT !.appName = n, !.compress = c, !.windowStrategy = st,
                                !.returnData = rd, !.inlineMaxBytes = imb]
        /\ IF ~supportsScreenshots
           THEN Ret(ErrorResult(<<Lit("Screenshot failed: ")>> \o UnsupportedMessage), NoLoc, None, 0)
           ELSE \E es \in (IF IsSome(st) THEN {env.strategy} ELSE Seen(env.strategy, EnvStrategyVals)) :
                GotoEnv("resolve1",
                        [NoLoc EXCEPT !.strategy = EffectiveStrategy(st, es),
                                      !.lines = <<Line("Looking for app", n)>>],
                        [env EXCEPT !.strategy = es])
    /\ op' = "shot"
    /\ UNCHANGED <<envVars, onPath, spawned, fs, lastRun>>

\* runScreenshot up to screenshotApp's first await
RunScreenshot ==
    /\ op = "idle"
    /\ \E n \in AppNames, c \in BOOLEAN, st \in Strategies, rd \in OptBool, imb \in OverrideVals :
        /\ req' = [NoReq EXCEPT !.appName = n, !.compress = c, !.windowStrategy = st,
                                !.returnData = rd, !.inlineMaxBytes = imb]
        /\ IF ~supportsScreenshots
           THEN Ret(ErrorResult(<<Lit("Screenshot failed: ")>> \o UnsupportedMessage), NoLoc, None, 0)
           ELSE \E es \in (IF IsSome(st) THEN {env.strategy} ELSE Seen(env.strategy, EnvStrategyVals)) :
                \* opts.strategy || process.env.WINDOW_STRATEGY || "auto"
                LET strategy == EffectiveStrategy(st, es)
                    e == [env EXCEPT !.strategy = es]
                IN IF n = <<>>
                   THEN LET sres == AppFail(<<Line("Error: No app name provided", <<>>)>>, <<"No app name">>)
                        IN RetEnv(RunScreenshotTail(sres, fs.out, req', None).res,
                                  [NoLoc EXCEPT !.strategy = strategy, !.lines = sres.stdout],
                                  Some(sres), 0, e)
                   ELSE GotoEnv("resolve1",
                                [NoLoc EXCEPT !.strategy = strategy,
                                              !.lines = <<Line("Looking for app", n)>>],
                                e)
    /\ op' = "shot"
    /\ UNCHANGED <<envVars, onPath, spawned, fs, lastRun>>

Found(r) == r.code = 0 /\ Trim(r.stdout) # <<>> /\ Trim(r.stdout) # NOT_FOUND

\* Mutation: a name found by the first pass goes straight to bring-to-front.
ResolvePass1_SkipsWindow ==
    /\ op = "shot" /\ pc = "resolve1" /\ Returned
    /\ IF Found(Get(runRes))
       THEN Goto("front", Push([loc EXCEPT !.actualApp = Some(Trim(Get(runRes).stdout))],
                               Line("Found app", Trim(Get(runRes).stdout))))
       ELSE Goto("resolve2", loc)
    /\ UNCHANGED frame

\* resolveActualAppName after script1
ResolvePass1 ==
    /\ op = "shot" /\ pc = "resolve1" /\ Returned
    /\ IF Found(Get(runRes))
       THEN Goto("window", Push([loc EXCEPT !.actualApp = Some(Trim(Get(runRes).stdout))],
                                Line("Found app", Trim(Get(runRes).stdout))))
       ELSE Goto("resolve2", loc)
    /\ UNCHANGED frame

\* Mutation: an unresolved name falls through to the window query.
ResolvePass2_FallsThrough ==
    /\ op = "shot" /\ pc = "resolve2" /\ Returned
    /\ IF Found(Get(runRes))
       THEN Goto("window", Push([loc EXCEPT !.actualApp = Some(Trim(Get(runRes).stdout))],
                                Line("Found app", Trim(Get(runRes).stdout))))
       ELSE Goto("window", loc)
    /\ UNCHANGED frame

\* resolveActualAppName after script2
ResolvePass2 ==
    /\ op = "shot" /\ pc = "resolve2" /\ Returned
    /\ IF Found(Get(runRes))
       THEN Goto("window", Push([loc EXCEPT !.actualApp = Some(Trim(Get(runRes).stdout))],
                                Line("Found app", Trim(Get(runRes).stdout))))
       ELSE Goto("list", [loc EXCEPT !.lines = @ \o <<Line("Could not find app", req.appName),
                                                        Line("Make sure the app is running and try one of these:", <<>>),
                                                        Line("", <<>>)>>])
    /\ UNCHANGED frame

\* listForegroundApps() from its RunResult
listForegroundApps(r) == IF r.code # 0 THEN <<>> ELSE ParseAppList(r.stdout)

\* screenshotApp's not-found branch after listForegroundApps
NotFound ==
    /\ op = "shot" /\ pc = "list" /\ Returned
    /\ LET names == listForegroundApps(Get(runRes))
           l == IF names # <<>>
                THEN [loc EXCEPT !.lines = @ \o <<Line("Available running apps:", <<>>)>>
                                              \o [i \in 1..Len(names) |-> Line("bullet", names[i])]]
                ELSE loc
       IN FailShot(l, <<"App not found">>)
    /\ UNCHANGED frame

\* getWindowInfo from its RunResult
getWindowInfo(r) == IF r.code = 0 /\ Trim(r.stdout) # <<>> THEN Trim(r.stdout) ELSE <<"ERROR">>

\* Mutation: lines is one array of the module, so the line pushed here also
\* lands in the other request's output.
WindowInfoDone_ModuleLevelLines ==
    /\ op = "shot" /\ pc = "window" /\ Returned
    /\ Goto("front", Push([loc EXCEPT !.windowInfo = getWindowInfo(Get(runRes))],
                          Line("Window info", getWindowInfo(Get(runRes)))))
    /\ parked' = [parked EXCEPT !.loc = Push(@, Line("Window info", getWindowInfo(Get(runRes))))]
    /\ UNCHANGED <<supportsScreenshots, probe, onPath, op, req, spawned, fs, lastRun>>

WindowInfoDone ==
    /\ op = "shot" /\ pc = "window" /\ Returned
    /\ Goto("front", Push([loc EXCEPT !.windowInfo = getWindowInfo(Get(runRes))],
                          Line("Window info", getWindowInfo(Get(runRes)))))
    /\ UNCHANGED frame

\* bringToFront ignores its RunResult; then the settle delay, then the lines
BringToFrontDone ==
    /\ op = "shot" /\ pc = "front" /\ Returned
    /\ Goto("mkdir", [loc EXCEPT !.lines = @ \o <<Line("Taking screenshot...", <<>>),
                                                   Line("Using window strategy", <<loc.strategy>>)>>])
    /\ UNCHANGED frame

\* ensureScreenshotDir ignores its RunResult; buildFilename; captureWithStrategy
\* up to its run() call
EnsureDirDone ==
    /\ op = "shot" /\ pc = "mkdir" /\ Returned
    /\ LET sel == SelectCapture(loc.strategy, loc.windowInfo)
       IN Goto("capture", [loc EXCEPT !.filename = Some(buildFilename(Get(loc.actualApp))),
                                      !.sel = Some(sel),
                                      !.lines = @ \o sel.lines])
    /\ UNCHANGED frame

\* Mutation: every capture by name is recompressed.
WantsCompress_Always(compress, envCompress) == TRUE

\* opts.compress || process.env.COMPRESS === "1"
WantsCompress(compress, envCompress) == compress \/ envCompress = Some("1")

\* screenshotApp after captureWithStrategy
CaptureDone ==
    /\ op = "shot" /\ pc = "capture" /\ Returned
    /\ IF Get(runRes).code # 0 \/ ~IsSome(fs.out)
       THEN FailShot(Push(loc, Line("Failed to capture screenshot", <<>>)),
                     OrElse(Get(runRes).stderr, OrElse(Get(runRes).stdout, <<"Capture failed">>)))
       ELSE \E ec \in (IF req.compress THEN {env.compress} ELSE Seen(env.compress, EnvCompressVals)) :
            IF WantsCompress(req.compress, ec)
            THEN GotoEnv("sips", [loc EXCEPT !.lines = @ \o <<Line("Screenshot saved", <<>>),
                                                               Line("Compressing PNG file...", <<>>)>>,
                                             !.original = Some(Get(fs.out).size)],
                         [env EXCEPT !.compress = ec])
            ELSE FinishShotEnv(Push(loc, Line("Screenshot saved", <<>>)), [env EXCEPT !.compress = ec])
    /\ UNCHANGED frame

\* compressPng after sips
SipsDone ==
    /\ op = "shot" /\ pc = "sips" /\ Returned
    /\ IF Get(runRes).code = 0 /\ IsSome(fs.tmp)
       THEN Goto("mv", loc)
       ELSE AfterCompress(loc)
    /\ UNCHANGED frame

\* Mutation: after the move the engine cleans up the output path instead of
\* the temporary one.
MvDone_RemovesOutput ==
    /\ op = "shot" /\ pc = "mv" /\ Returned
    /\ AfterCompress(loc)
    /\ fs' = [fs EXCEPT !.out = None]
    /\ UNCHANGED <<envVars, onPath, op, req, spawned, lastRun>>

\* compressPng after mv
MvDone ==
    /\ op = "shot" /\ pc = "mv" /\ Returned
    /\ AfterCompress(loc)
    /\ UNCHANGED frame


\* ------------------------------------------------------- list applications
\* Mutation: listRunningApps without its platform guard.
ListRunningApps_NoGuard ==
    /\ op = "idle"
    /\ req' = NoReq
    /\ Goto("listapps", NoLoc)
    /\ op' = "list"
    /\ UNCHANGED <<envVars, onPath, spawned, fs, lastRun>>

\* listRunningApps up to its await
ListRunningApps ==
    /\ op = "idle"
    /\ req' = NoReq
    /\ IF ~supportsScreenshots
       THEN Ret(ErrorResult(<<Lit("App listing failed: ")>> \o UnsupportedMessage), NoLoc, None, 0)
       ELSE Goto("listapps", NoLoc)
    /\ op' = "list"
    /\ UNCHANGED <<envVars, onPath, spawned, fs, lastRun>>

\* Mutation: the failure text is the query's output alone, without the prefix.
ListAppsResult_NoPrefix(r) ==
    IF r.code # 0
    THEN ErrorResult(<<Str(OrElse(r.stderr, r.stdout))>>)
    ELSE IF Trim(r.stdout) = <<>>
    THEN OkResult(<<TextItem(<<Lit("[]")>>)>>)
    ELSE OkResult(<<TextItem(<<[json |-> SortNames(ParseAppList(Trim(r.stdout)))]>>)>>)

\* listRunningApps from the query's exit code and output to its result
ListAppsResult(r) ==
    IF r.code # 0
    THEN ErrorResult(<<Lit("App listing failed: "), Str(OrElse(r.stderr, r.stdout))>>)
    ELSE IF Trim(r.stdout) = <<>>
    THEN OkResult(<<TextItem(<<Lit("[]")>>)>>)
    ELSE OkResult(<<TextItem(<<[json |-> SortNames(ParseAppList(Trim(r.stdout)))]>>)>>)

\* listRunningApps after the query has exited
ListAppsDone ==
    /\ op = "list" /\ pc = "listapps" /\ Returned
    /\ Ret(ListAppsResult(Get(runRes)), loc, None, 0)
    /\ UNCHANGED frame

\* ------------------------------------------------------------ capture region
\* Mutation: a zero width passes the validation.
InvalidRegion_ZeroWidthAllowed(x, y, width, height) == x < 0 \/ y < 0 \/ width < 0 \/ height <= 0

InvalidRegion(x, y, width, height) == x < 0 \/ y < 0 \/ width <= 0 \/ height <= 0

InvalidRegionText(x, y, width, height) ==
    <<Lit("Region capture failed: Invalid coordinates. x and y must be non-negative, width and height must be positive. Got: "),
      Lit("x="), Num(x), Lit(", "), Lit("y="), Num(y), Lit(", "), Lit("width="), Num(width),
      Lit(", "), Lit("height="), Num(height)>>

\* captureRegion up to its first await
CaptureRegion ==
    /\ op = "idle"
    /\ \E x \in XYVals, y \in XYVals, w \in WHVals, h \in WHVals,
          c \in BOOLEAN, rd \in OptBool, imb \in OverrideVals :
        /\ req' = [NoReq EXCEPT !.x = x, !.y = y, !.width = w, !.height = h,
                                !.compress = c, !.returnData = rd, !.inlineMaxBytes = imb]
        /\ IF ~supportsScreenshots
           THEN Ret(ErrorResult(<<Lit("Region capture failed: ")>> \o UnsupportedMessage), NoLoc, None, 0)
           ELSE IF InvalidRegion(x, y, w, h)
           THEN Ret(ErrorResult(InvalidRegionText(x, y, w, h)), NoLoc, None, 0)
           ELSE Goto("rmkdir", [NoLoc EXCEPT !.filename = Some(RegionFilename(x, y, w, h))])
    /\ op' = "region"
    /\ UNCHANGED <<envVars, onPath, spawned, fs, lastRun>>

\* "await proc.exited" of mkdir: the exit code is not looked at
RegionMkdirDone ==
    /\ op = "region" /\ pc = "rmkdir" /\ Returned
    /\ Goto("rcapture", loc)
    /\ UNCHANGED frame

RegionEmbed ==
    \E ev \in Seen(env.maxBytes, EnvMaxVals) :
        LET e == embedFileContent(fs.out, Get(loc.filename),
                                  "Region screenshot successfully captured and saved to: ",
                                  req.inlineMaxBytes, req.returnData, ev)
        IN RetEnv(e.res, loc, None, e.read, [env EXCEPT !.maxBytes = ev])

\* captureRegion after screencapture has exited before the deadline
RegionCaptureDone ==
    /\ op = "region" /\ pc = "rcapture" /\ Returned
    /\ LET r == Get(runRes) IN
       IF r.code # 0
       THEN Ret(ErrorResult(<<Lit("Region capture failed: "),
                              Str(OrElse(r.stderr, OrElse(r.stdout, <<"Unknown error">>)))>>),
                loc, None, 0)
       ELSE IF ~IsSome(fs.out)
       THEN Ret([content |-> <<TextItem(<<Lit("Region capture appears to have been taken but file not found at expected location: "),
                                          Path(Get(loc.filename)),
                                          Lit(". The capture may have failed silently.")>>)>>,
                 isError |-> FALSE],
                loc, None, 0)
       ELSE IF req.compress
       THEN Goto("rsips", loc)
       ELSE RegionEmbed
    /\ UNCHANGED frame

\* captureRegion after "await compressProc.exited"
RegionSipsDone ==
    /\ op = "region" /\ pc = "rsips" /\ Returned
    /\ RegionEmbed
    /\ UNCHANGED frame

\* ------------------------------------------------------------------ the system
\* The caller has its result; the next request may start.
Finish ==
    /\ op # "idle" /\ pc = "done"
    /\ op' = "idle" /\ pc' = "idle" /\ req' = NoReq /\ loc' = NoLoc /\ proc' = NoProc
    /\ runRes' = None /\ spawned' = <<>> /\ fs' = NoFs /\ reads' = 0
    /\ appResult' = None /\ result' = None /\ lastRun' = "none"
    /\ onPath' = [c \in Commands |-> "?"]
    /\ env' = NoEnv
    /\ UNCHANGED envVars

Next ==
    \/ RunScreenshot \/ ListRunningApps \/ CaptureRegion
    \/ SpawnStarts \/ SpawnThrows \/ ProcExit \/ RunDeadline \/ RaceDeadline
    \/ ResolvePass1 \/ ResolvePass2 \/ NotFound \/ WindowInfoDone \/ BringToFrontDone
    \/ EnsureDirDone \/ CaptureDone \/ SipsDone \/ MvDone
    \/ ListAppsDone \/ RegionMkdirDone \/ RegionCaptureDone \/ RegionSipsDone
    \/ Finish

Spec == Init /\ [][Next]_vars

\* ------------------------------------------------------ two requests in flight
\* The engine runs on one thread: a handler runs from one await to the next
\* and only there can the other request's continuation, or a new request,
\* run.  The running request is held in op .. lastRun, the suspended one in
\* parked.  process.env, the executables on PATH and the platform are the
\* process's; the two requests write different output paths.
AtAwait == op = "idle" \/ pc = "done" \/ proc.state # "none"

\* The event loop turns to the other request.
Yield ==
    /\ AtAwait
    /\ parked' = Current
    /\ op' = parked.op /\ pc' = parked.pc /\ req' = parked.req /\ loc' = parked.loc
    /\ proc' = parked.proc /\ runRes' = parked.runRes /\ spawned' = parked.spawned
    /\ fs' = parked.fs /\ reads' = parked.reads /\ appResult' = parked.appResult
    /\ result' = parked.result /\ lastRun' = parked.lastRun
    /\ UNCHANGED <<supportsScreenshots, env, onPath, probe>>

\* The scenario explored with two requests in flight: one application name
\* and one rectangle, the three environment variables unset, every
\* executable on PATH, one file size, and recompression asked for by at most
\* one capture-by-name at a time.
PairScenario ==
    /\ req.appName \in {<<>>, <<"A", "b">>}
    /\ req.windowStrategy = None /\ req.returnData = None /\ req.inlineMaxBytes = None
    /\ <<req.x, req.y, req.width, req.height>> \in {<<0, 0, 0, 0>>, <<0, 0, 50, 50>>}
    /\ env.maxBytes \in {Unread, None} /\ env.strategy \in {Unread, None}
    /\ env.compress \in {Unread, None}
    /\ \A c \in Commands : onPath[c] # "no"
    /\ IsSome(fs.out) => Get(fs.out).size = 11
    /\ IsSome(fs.tmp) => Get(fs.tmp).size = 11
    /\ req.compress => parked.op # "shot"

NextPair == (Next /\ PairScenario') \/ (Yield /\ Current # parked)

SpecPair == Init /\ [][NextPair]_vars

\* ------------------------------------------------ the embedding helpers alone
\* Arguments enumerated for shouldEmbed and resolveInlineMaxBytes.  The
\* environment strings cover: unset, empty, a positive numeral, zero, a
\* negative numeral, a numeral inside white space, and text that is no number.
ProbeSizes == 0..MaxSize
ProbeOverrides == {None, Some(0), Some(7)}
ProbeEnvVals == {None, Some(<<>>), Some(<<"5">>), Some(<<"1", "2">>), Some(<<"0">>),
                 Some(<<"-", "5">>), Some(<<" ", "4", "\n">>), Some(<<"1", "2", "a">>),
                 Some(<<"a", "b", "c">>)}

ShouldEmbedCalls ==
    {[f |-> "shouldEmbed", args |-> <<size, threshold, force>>, value |-> None] :
        size \in ProbeSizes, threshold \in ProbeSizes, force \in OptBool}

ResolveCalls ==
    {[f |-> "resolveInlineMaxBytes", args |-> <<override, envVal>>, value |-> None] :
        override \in ProbeOverrides, envVal \in ProbeEnvVals}

\* Process lists, in the order the OS reports them, and inputs for the resolver.
ProbeNameLists == {<<>>, << <<"a", "b">> >>, << <<"A", "b">> >>,
                   << <<"B">>, <<"a", "b">> >>, << <<"a", "b">>, <<"B">> >>,
                   << <<"z">>, <<"a", "b", "c">>, <<"a", "b">> >>}
ProbeInputs == {<<"a">>, <<"b">>, <<"A", "b">>, <<"a", "b", "c">>, <<"z", "z">>}

Pass1Calls ==
    {[f |-> "resolverPass1", args |-> <<names, input>>, value |-> None] :
        names \in ProbeNameLists, input \in ProbeInputs}

\* Pass 1 of resolveActualAppName when its query ran: the name it returns, if any.
ResolverPass1(names, input) ==
    LET r == [stdout |-> Script1(names, input) \o <<"\n">>, stderr |-> <<>>, code |-> 0]
    IN IF r.code = 0 /\ Trim(r.stdout) # <<>> /\ Trim(r.stdout) # NOT_FOUND
       THEN Some(Trim(r.stdout)) ELSE None

\* How one osascript query of the resolver can end: it prints the script's
\* answer, prints nothing (the script's "try" swallowed an error), exits
\* nonzero, or is killed at its deadline.
QueryBehaviours == {"ok", "empty", "fail", "timeout"}

\* run()'s RunResult for a query that behaves as q and whose script answers out
QueryResult(q, out) ==
    CASE q = "ok"      -> [stdout |-> out \o <<"\n">>, stderr |-> <<>>, code |-> 0]
      [] q = "empty"   -> [stdout |-> <<>>, stderr |-> <<>>, code |-> 0]
      [] q = "fail"    -> [stdout |-> <<>>, stderr |-> <<"execution error", "\n">>, code |-> 1]
      [] q = "timeout" -> [stdout |-> <<>>, stderr |-> <<"[TIMEOUT]">>, code |-> TIMEOUT_CODE]

\* resolveActualAppName(input) against the process list names, its two
\* queries behaving as q1 and q2: the name returned, or None for null.
resolveActualAppName(names, input, q1, q2) ==
    LET r1 == QueryResult(q1, Script1(names, input))
        r2 == QueryResult(q2, Script2(names, input))
    IN IF Found(r1) THEN Some(Trim(r1.stdout))
       ELSE IF Found(r2) THEN Some(Trim(r2.stdout))
       ELSE None

TwiceCalls ==
    {[f |-> "resolveTwice", args |-> <<names, input>>, value |-> <<>>] :
        names \in ProbeNameLists, input \in ProbeInputs}

\* ------------------------------------------------------ the output paths alone
DigitChars == <<"0", "1", "2", "3", "4", "5", "6", "7", "8", "9">>

RECURSIVE NumText(_)
\* `${n}` for an integer n
NumText(n) ==
    IF n < 0 THEN <<"-">> \o NumText(-n)
    ELSE IF n < 10 THEN <<DigitChars[n + 1]>>
    ELSE NumText(n \div 10) \o <<DigitChars[(n % 10) + 1]>>

\* n.toString().padStart(2, "0")
Pad2(n) == IF n < 10 THEN <<"0">> \o NumText(n) ELSE NumText(n)

\* nowTimestamp() when the wall clock shows second s of one fixed minute:
\* YYYYMMDD_HHMMSS
nowTimestamp(s) == <<"20250101", "_", "1200">> \o Pad2(s)

\* new Date().toISOString().replace(/[:.]/g, "-").slice(0, -5) at that second
RegionTimestamp(s) == <<"2025-01-01", "T", "12-00-">> \o Pad2(s)

\* The path as text: buildFilename's and captureRegion's template literals.
FilenameText(f, s) ==
    IF f.kind = "app"
    THEN <<"$HOME/", f.dir, "/", "screenshot_">> \o f.name \o <<"_">> \o nowTimestamp(s) \o <<f.ext>>
    ELSE <<"$HOME/", f.dir, "/", "screenshot_", "region_">>
             \o NumText(f.rect[1]) \o <<"_">> \o NumText(f.rect[2]) \o <<"_">>
             \o NumText(f.rect[3]) \o <<"x">> \o NumText(f.rect[4]) \o <<"_">>
             \o RegionTimestamp(s) \o <<f.ext>>

\* Resolved application names, rectangles that pass the validation, and
\* wall-clock seconds for two captures.
PathApps == {<<"A", " ", "b">>, <<"A", "_", "b">>, <<"A", " ", " ", "b">>, <<"A", "b">>, <<"z">>}
PathRects == {<<x, y, w, h>> : x \in {0, 1, 11}, y \in {0, 1}, w \in {1, 50}, h \in {1, 50}}
PathSeconds == {7, 12}

PathCaptures ==
    {[kind |-> "app", app |-> a, rect |-> <<>>, second |-> s] : a \in PathApps, s \in PathSeconds}
    \cup {[kind |-> "region", app |-> <<>>, rect |-> r, second |-> s] : r \in PathRects, s \in PathSeconds}

\* The output path a capture is given.
CapturePath(c) ==
    IF c.kind = "app"
    THEN FilenameText(buildFilename(c.app), c.second)
    ELSE FilenameText(RegionFilename(c.rect[1], c.rect[2], c.rect[3], c.rect[4]), c.second)

PathCalls ==
    {[f |-> "paths", args |-> <<c1, c2>>, value |-> None] : c1 \in PathCaptures, c2 \in PathCaptures}

\* ------------------------------------------------- list-applications' reply
\* Replies of the process-list query: names separated by commas, with and
\* without white space around them, empty pieces, duplicates, names out of
\* order; and its exit codes.
ListReplies ==
    {<<>>, <<"\n">>, <<" ", "\n">>, <<",">>, <<",", " ", ",", "\n">>,
     <<"a", "\n">>, <<"b", ",", " ", "a", "\n">>, <<"z", ",", " ", "B", ",", " ", "a", "\n">>,
     <<" ", "a", " ", ",", ",", "b", "\n">>, <<"a", ",", "a", "\n">>,
     <<"a", "b", ",", " ", "a", ",", " ", "B", "\n">>, <<"b", ",", " ", ",", " ", "a", " ", "b", "\n">>}

ListCalls ==
    {[f |-> "listApps", args |-> <<[stdout |-> out, stderr |-> err, code |-> code]>>, value |-> None] :
        out \in ListReplies, err \in {<<>>, ERR}, code \in {0, 1}}

\* The reply cut at its commas: the positions just outside each piece.
CommaCuts(s) == {i \in 1..Len(s) : s[i] = ","} \cup {0, Len(s) + 1}

\* The pieces between neighbouring cuts, as pairs of cuts.
Pieces(s) ==
    {c \in CommaCuts(s) \X CommaCuts(s) :
        c[1] < c[2] /\ \A k \in CommaCuts(s) : ~(c[1] < k /\ k < c[2])}

\* t without the white space at its two ends
Trimmed(t) ==
    LET inked == {i \in 1..Len(t) : ~IsSpace(t[i])}
    IN IF inked = {} THEN <<>>
       ELSE SubSeq(t, CHOOSE i \in inked : \A j \in inked : i <= j,
                      CHOOSE i \in inked : \A j \in inked : j <= i)

PieceName(s, c) == Trimmed(SubSeq(s, c[1] + 1, c[2] - 1))

\* --------------------------------------------- the embedding step, call by call
\* File sizes, inlineMaxBytes overrides and values of
\* MCP_SCREENSHOT_EMBED_MAX_BYTES for two calls with the variable changed
\* between them.
EmbedSizes == {3, 1500, 1000001}
EmbedOverrides == {None, Some(10)}
EmbedEnvVals == {None, Some(<<"5">>), Some(<<"2", "0", "4", "8">>), Some(<<"a">>)}
EmbedPath == RegionFilename(0, 0, 50, 50)
EmbedLabel == "Region screenshot successfully captured and saved to: "

EmbedCalls ==
    {[f |-> "embedTwice", args |-> <<size, override, e1, e2>>, value |-> <<>>] :
        size \in EmbedSizes, override \in EmbedOverrides, e1 \in EmbedEnvVals, e2 \in EmbedEnvVals}

InitHelpers ==
    /\ supportsScreenshots = TRUE
    /\ parked = NoCtx
    /\ Idle
    /\ \/ probe \in ShouldEmbedCalls
       \/ probe \in ResolveCalls
       \/ probe \in Pass1Calls
       \/ probe \in TwiceCalls
       \/ probe \in PathCalls
       \/ probe \in ListCalls
       \/ probe \in EmbedCalls

CallShouldEmbed ==
    /\ probe.f = "shouldEmbed" /\ probe.value = None
    /\ probe' = [probe EXCEPT !.value = Some(shouldEmbed(probe.args[1], probe.args[2], probe.args[3]))]
    /\ UNCHANGED <<supportsScreenshots, env, onPath, op, pc, req, loc, proc, runRes,
                   spawned, fs, reads, appResult, result, lastRun, parked>>

CallResolveInlineMaxBytes ==
    /\ probe.f = "resolveInlineMaxBytes" /\ probe.value = None
    /\ probe' = [probe EXCEPT !.value = Some(resolveInlineMaxBytes(probe.args[1], probe.args[2]))]
    /\ UNCHANGED <<supportsScreenshots, env, onPath, op, pc, req, loc, proc, runRes,
                   spawned, fs, reads, appResult, result, lastRun, parked>>

CallResolverPass1 ==
    /\ probe.f = "resolverPass1" /\ probe.value = None
    /\ probe' = [probe EXCEPT !.value = Some(ResolverPass1(probe.args[1], probe.args[2]))]
    /\ UNCHANGED <<supportsScreenshots, env, onPath, op, pc, req, loc, proc, runRes,
                   spawned, fs, reads, appResult, result, lastRun, parked>>

\* The resolver is called; probe.value collects, call by call, how the
\* queries behaved and what the call returned.
CallResolver ==
    /\ probe.f = "resolveTwice" /\ Len(probe.value) = 0
    /\ \E q1 \in QueryBehaviours, q2 \in QueryBehaviours :
          probe' = [probe EXCEPT !.value =
                       <<[q |-> <<q1, q2>>,
                          out |-> resolveActualAppName(probe.args[1], probe.args[2], q1, q2)]>>]
    /\ UNCHANGED <<supportsScreenshots, env, onPath, op, pc, req, loc, proc, runRes,
                   spawned, fs, reads, appResult, result, lastRun, parked>>

\* Mutation: a second call that remembers pass 1 and does not repeat pass 2.
CallResolverAgain_SkipsPass2 ==
    /\ probe.f = "resolveTwice" /\ Len(probe.value) = 1
    /\ \E q1 \in QueryBehaviours, q2 \in QueryBehaviours :
          probe' = [probe EXCEPT !.value =
                       Append(@, [q |-> <<q1, q2>>,
                                  out |-> resolveActualAppName(probe.args[1], probe.args[2], q1, "fail")])]
    /\ UNCHANGED <<supportsScreenshots, env, onPath, op, pc, req, loc, proc, runRes,
                   spawned, fs, reads, appResult, result, lastRun, parked>>

\* The resolver is called again with the same input; the process list is unchanged.
CallResolverAgain ==
    /\ probe.f = "resolveTwice" /\ Len(probe.value) = 1
    /\ \E q1 \in QueryBehaviours, q2 \in QueryBehaviours :
          probe' = [probe EXCEPT !.value =
                       Append(@, [q |-> <<q1, q2>>,
                                  out |-> resolveActualAppName(probe.args[1], probe.args[2], q1, q2)])]
    /\ UNCHANGED <<supportsScreenshots, env, onPath, op, pc, req, loc, proc, runRes,
                   spawned, fs, reads, appResult, result, lastRun, parked>>

\* Two captures are each given their output path.
CallFilenames ==
    /\ probe.f = "paths" /\ probe.value = None
    /\ probe' = [probe EXCEPT !.value = Some(<<CapturePath(probe.args[1]), CapturePath(probe.args[2])>>)]
    /\ UNCHANGED <<supportsScreenshots, env, onPath, op, pc, req, loc, proc, runRes,
                   spawned, fs, reads, appResult, result, lastRun, parked>>

\* listRunningApps turns the query's outcome into its result.
CallListAppsResult ==
    /\ probe.f = "listApps" /\ probe.value = None
    /\ probe' = [probe EXCEPT !.value = Some(ListAppsResult(probe.args[1]))]
    /\ UNCHANGED <<supportsScreenshots, env, onPath, op, pc, req, loc, proc, runRes,
                   spawned, fs, reads, appResult, result, lastRun, parked>>

\* The embedding step of a first call, under the first environment value.
CallEmbed ==
    /\ probe.f = "embedTwice" /\ Len(probe.value) = 0
    /\ probe' = [probe EXCEPT !.value =
                    <<embedFileContent(Some([size |-> probe.args[1], bytes |-> "captured"]),
                                       EmbedPath, EmbedLabel, probe.args[2], None, probe.args[3]).res>>]
    /\ UNCHANGED <<supportsScreenshots, env, onPath, op, pc, req, loc, proc, runRes,
                   spawned, fs, reads, appResult, result, lastRun, parked>>

\* Mutation: the threshold resolved by the first call is kept for later calls.
CallEmbedAgain_Cached ==
    /\ probe.f = "embedTwice" /\ Len(probe.value) = 1
    /\ probe' = [probe EXCEPT !.value =
                    Append(@, embedFileContent(Some([size |-> probe.args[1], bytes |-> "captured"]),
                                               EmbedPath, EmbedLabel, probe.args[2], None, probe.args[3]).res)]
    /\ UNCHANGED <<supportsScreenshots, env, onPath, op, pc, req, loc, proc, runRes,
                   spawned, fs, reads, appResult, result, lastRun, parked>>

\* The embedding step of a later call, after the variable was changed.
CallEmbedAgain ==
    /\ probe.f = "embedTwice" /\ Len(probe.value) = 1
    /\ probe' = [probe EXCEPT !.value =
                    Append(@, embedFileContent(Some([size |-> probe.args[1], bytes |-> "captured"]),
                                               EmbedPath, EmbedLabel, probe.args[2], None, probe.args[4]).res)]
    /\ UNCHANGED <<supportsScreenshots, env, onPath, op, pc, req, loc, proc, runRes,
                   spawned, fs, reads, appResult, result, lastRun, parked>>

NextHelpers ==
    \/ CallShouldEmbed \/ CallResolveInlineMaxBytes \/ CallResolverPass1
    \/ CallResolver \/ CallResolverAgain \/ CallFilenames \/ CallListAppsResult
    \/ CallEmbed \/ CallEmbedAgain

SpecHelpers == InitHelpers /\ [][NextHelpers]_vars

\* ------------------------------------------------ the process runner by itself
\* One call of winshot.ts run(), followed statement by statement and past its
\* return, to the end of its timer: the operations' specification forgets a
\* timer once its run has returned.  probe.args is the command (by the step
\* that issues it), probe.value holds the subprocess (proc), the timer, what
\* run returned, whether it threw, and for every proc.kill() call the state
\* the subprocess was in when the call was made.
RunKinds == {k \in SpawnPcs : SpawnOf(k).mode = "run"}

RunCalls ==
    {[f |-> "run", args |-> <<k>>,
      value |-> [proc |-> "none", timer |-> "unset", returned |-> None, threw |-> FALSE,
                 kills |-> <<>>]] : k \in RunKinds}

InitRunner ==
    /\ supportsScreenshots \in BOOLEAN
    /\ parked = NoCtx
    /\ Idle
    /\ probe \in RunCalls

RunnerFrame == <<supportsScreenshots, env, onPath, op, pc, req, loc, proc, runRes,
                 spawned, fs, reads, appResult, result, lastRun, parked>>

\* const proc = Bun.spawn(cmd, ...); setTimeout(..., timeout)
RunnerSpawn ==
    /\ probe.f = "run" /\ probe.value.proc = "none" /\ ~probe.value.threw
    /\ probe' = [probe EXCEPT !.value.proc = "running", !.value.timer = "armed"]
    /\ UNCHANGED RunnerFrame

\* Bun.spawn throws: the statement stands before the try block
RunnerSpawnThrows ==
    /\ probe.f = "run" /\ probe.value.proc = "none" /\ ~probe.value.threw
    /\ probe' = [probe EXCEPT !.value.threw = TRUE]
    /\ UNCHANGED RunnerFrame

\* the subprocess exits and the race is settled by its streams and exit
\* code: run returns them.  Nothing clears the timer.
RunnerExit ==
    /\ probe.f = "run" /\ probe.value.proc = "running"
    /\ \E names \in RunningLists :
        \E o \in Outcomes(probe.args[1], names) :
            probe' = [probe EXCEPT !.value.proc = "exited",
                                   !.value.returned = Some([stdout |-> o.stdout, stderr |-> o.stderr,
                                                            code |-> o.code])]
    /\ UNCHANGED RunnerFrame

\* the timer's callback: proc.kill(); reject(new Error("[TIMEOUT]")).  While
\* run awaits, the rejection settles the race and the catch block returns the
\* sentinel; after run has returned, the rejection has no one to reach.
RunnerTimer ==
    /\ probe.f = "run" /\ probe.value.timer = "armed"
    /\ probe' = [probe EXCEPT
                    !.value.timer = "fired",
                    !.value.kills = Append(@, probe.value.proc),
                    !.value.proc = IF @ = "running" THEN "killed" ELSE @,
                    !.value.returned = IF IsSome(@) THEN @
                                       ELSE Some([stdout |-> <<>>, stderr |-> <<"[TIMEOUT]">>,
                                                  code |-> TIMEOUT_CODE])]
    /\ UNCHANGED RunnerFrame

NextRunner == RunnerSpawn \/ RunnerSpawnThrows \/ RunnerExit \/ RunnerTimer

SpecRunner == InitRunner /\ [][NextRunner]_vars

\* ------------------------------------------------------------------ properties
\* C9: shouldEmbed(size, threshold, force) is exactly size <= threshold,
\* whatever the explicit-request flag: true up to and including the threshold,
\* false for every larger size.
C9_ShouldEmbedIsAtMost ==
    probe.f = "shouldEmbed" /\ IsSome(probe.value) =>
        Get(probe.value) = (probe.args[1] <= probe.args[2])

\* the boundary size == threshold has been decided with the flag absent
C9_Witness ==
    /\ probe.f = "shouldEmbed" /\ probe.value = Some(TRUE)
    /\ probe.args[1] = probe.args[2] /\ probe.args[1] > 0 /\ probe.args[3] = None

\* C10: the threshold is the per-call override when one is given; otherwise
\* the environment variable's value when it is set to a positive number;
\* otherwise 1,000,000.
C10_ThresholdOrder ==
    probe.f = "resolveInlineMaxBytes" /\ IsSome(probe.value) =>
        LET override == probe.args[1]
            envVal == probe.args[2]
            parsed == IF IsSome(envVal) THEN Number(Get(envVal)) ELSE None
        IN Get(probe.value) =
              IF IsSome(override) THEN Get(override)
              ELSE IF IsSome(parsed) /\ Get(parsed) > 0 THEN Get(parsed)
              ELSE 1000000

\* an override was given while the environment variable held another positive number
C10_Witness ==
    /\ probe.f = "resolveInlineMaxBytes" /\ probe.value = Some(7)
    /\ probe.args = <<Some(7), Some(<<"1", "2">>)>>

\* C1: whenever capture-by-name has invoked the capture step, the variant it
\* invoked (the screencapture option) is the one the strategy table gives for
\* the effective strategy and the window classification, it is invoked once,
\* and the method recorded and returned is that same variant.
C1_StrategyTable ==
    LET class == IF StartsWith(loc.windowInfo, "WINDOW_ID:") THEN "StableId"
                 ELSE IF StartsWith(loc.windowInfo, "BOUNDS:") THEN "Bounds"
                 ELSE IF loc.windowInfo = <<"NO_WINDOWS">> THEN "NoWindows"
                 ELSE "QueryError"
        variant ==
            CASE loc.strategy = "interactive" -> "interactive"
              [] loc.strategy = "id" /\ class = "StableId" -> "window-id"
              [] loc.strategy = "bounds" /\ class = "Bounds" -> "bounds"
              [] loc.strategy = "auto" /\ class = "StableId" -> "window-id"
              [] loc.strategy = "auto" /\ class = "Bounds" -> "bounds"
              [] loc.strategy = "auto" /\ class = "NoWindows" -> "interactive"
              [] OTHER -> "frontmost"
        option == CASE variant = "window-id" -> "-l" [] variant = "bounds" -> "-R"
                    [] variant = "interactive" -> "-i" [] variant = "frontmost" -> "-w"
        captures == {i \in 1..Len(spawned) : spawned[i].kind = "capture"}
    IN op = "shot" /\ captures # {} =>
          /\ Cardinality(captures) = 1
          /\ loc.strategy \in {"auto", "id", "bounds", "interactive"}
          /\ \A i \in captures : spawned[i].flag = option
          /\ Get(loc.sel).method = variant
          /\ (IsSome(appResult) /\ Get(appResult).success => Get(appResult).method = Some(variant))

\* the bounds strategy met a window that has a stable id and fell back to frontmost
C1_Witness ==
    /\ op = "shot" /\ pc = "done" /\ IsSome(appResult) /\ Get(appResult).success
    /\ loc.strategy = "bounds" /\ StartsWith(loc.windowInfo, "WINDOW_ID:")
    /\ Get(appResult).method = Some("frontmost")
    /\ \E i \in 1..Len(spawned) : spawned[i].kind = "capture" /\ spawned[i].flag = "-w"

C4_RunNeverThrows ==
    /\ lastRun # "threw"
    /\ (proc.mode = "run" /\ proc.state = "killed" =>
            runRes = Some([stdout |-> <<>>, stderr |-> <<"[TIMEOUT]">>, code |-> 124]))
    /\ (proc.mode = "run" /\ proc.state = "exited" => IsSome(runRes) /\ lastRun = "returned")

\* C5 as stated: every subprocess an operation is waiting on has a deadline
\* after which it is killed.
C5_EveryWaitHasDeadline ==
    proc.state = "running" => proc.timer /\ proc.timeoutMs > 0

C7_NotFoundStopsEarly ==
    (/\ op = "shot" /\ ~IsSome(loc.actualApp) /\ pc \notin {"resolve1", "resolve2"}
     /\ \E i \in 1..Len(spawned) : spawned[i].kind = "resolve2") =>
        /\ pc \in {"list", "done"}
        /\ \A i \in 1..Len(spawned) : spawned[i].kind \in {"resolve1", "resolve2", "list"}
        /\ Cardinality({i \in 1..Len(spawned) : spawned[i].kind = "list"}) <= 1
        /\ (pc = "done" =>
              /\ IsSome(result) /\ Get(result).isError
              /\ Get(result).content = <<TextItem(<<Lit("Screenshot failed: "), Str(<<"App not found">>)>>)>>
              /\ \E i \in 1..Len(spawned) : spawned[i].kind = "list")

\* the not-found error has been returned after the list query
C7_Witness ==
    /\ op = "shot" /\ pc = "done" /\ ~IsSome(loc.actualApp)
    /\ Len(spawned) = 3 /\ spawned[3].kind = "list"
    /\ IsSome(result) /\ Get(result).isError

\* C8 as stated: the not-found result returned to the caller is the not-found
\* error and its text includes every application name the list query yielded.
C8_NotFoundListsApps ==
    (/\ op = "shot" /\ pc = "done" /\ IsSome(appResult)
     /\ Get(appResult).error = <<"App not found">>) =>
        /\ IsSome(result) /\ Get(result).isError
        /\ \A i \in 1..Len(Get(appResult).stdout) :
              Get(appResult).stdout[i].t = "bullet" =>
                 \E k \in 1..Len(Get(result).content) :
                    \E j \in 1..Len(Get(result).content[k].text) :
                       Get(result).content[k].text[j] = Str(Get(appResult).stdout[i].a)

C13_RecompressionNeverFails ==
    [][ (pc \in {"sips", "mv", "rsips"} /\ pc' = "done")
        => (IsSome(result') /\ ~Get(result').isError) ]_vars

\* C14 as stated: when capture-by-name has returned after a requested
\* recompression, the output file holds recompressed bytes only if they are
\* fewer than the original's; otherwise it still holds the original bytes and
\* the diagnostic lines carry a non-fatal notice.
C14_OriginalKeptUnlessSmaller ==
    (/\ op = "shot" /\ pc = "done" /\ IsSome(loc.original)
     /\ IsSome(appResult) /\ Get(appResult).success /\ IsSome(fs.out)) =>
        LET recompressed == Get(fs.out).bytes = "recompressed"
            notice == \E i \in 1..Len(Get(appResult).stdout) :
                         Get(appResult).stdout[i].t \in {"Compression failed, using original file",
                                                         "Compression did not reduce size"}
        IN /\ (recompressed => Get(fs.out).size < Get(loc.original))
           /\ (~recompressed => notice)

\* C15 as stated: when capture-by-name or capture-region has returned, the
\* output file's bytes have been read exactly once if the result embeds the
\* image and not at all if it does not.
C15_ReadAtMostOnce ==
    (op \in {"shot", "region"} /\ pc = "done" /\ IsSome(result)) =>
        LET embeds == \E i \in 1..Len(Get(result).content) : Get(result).content[i].type = "image"
        IN reads = IF embeds THEN 1 ELSE 0

\* C16 as stated: pass 1 returns the first name, in enumeration order, that
\* contains the input or is contained in it, comparing characters exactly;
\* it returns no name only if no enumerated name passes that test.
C16_Pass1CaseSensitive ==
    probe.f = "resolverPass1" /\ IsSome(probe.value) =>
        LET names == probe.args[1]
            input == probe.args[2]
            match(i) == Contains(names[i], input) \/ Contains(input, names[i])
            hits == {i \in 1..Len(names) : match(i)}
        IN IF hits = {} THEN Get(probe.value) = None
           ELSE \E i \in hits : /\ \A j \in hits : i <= j
                                /\ Get(probe.value) = Some(names[i])

\* C16 amended: the same, with the comparison ignoring case.
C16_Pass1IgnoringCase ==
    probe.f = "resolverPass1" /\ IsSome(probe.value) =>
        LET names == probe.args[1]
            input == probe.args[2]
            match(i) == \/ Contains(LowerStr(names[i]), LowerStr(input))
                        \/ Contains(LowerStr(input), LowerStr(names[i]))
            hits == {i \in 1..Len(names) : match(i)}
        IN IF hits = {} THEN Get(probe.value) = None
           ELSE \E i \in hits : /\ \A j \in hits : i <= j
                                /\ Get(probe.value) = Some(names[i])

\* pass 1 has returned the first of two matching names, one that differs from the input in case
C16_Witness ==
    /\ probe.f = "resolverPass1"
    /\ probe.args = << << <<"B">>, <<"a", "b">> >>, <<"A", "b">> >>
    /\ probe.value = Some(Some(<<"B">>))

\* C17 as stated: capture-by-name leaves pass 1 for the window query with the
\* name pass 1 found, without running pass 2, and in every other case (its
\* query failed, timed out, could not be run, or printed nothing or
\* NOT_FOUND) for pass 2; it leaves pass 2 for the window query with the name
\* found, or else for the not-found branch; no failure of a query ends the
\* operation with an error of its own.
C17_Pass2IffPass1Empty ==
    [][ LET found == /\ proc.state \in {"exited", "killed"} /\ IsSome(runRes)
                     /\ Get(runRes).code = 0
                     /\ Trim(Get(runRes).stdout) # <<>>
                     /\ Trim(Get(runRes).stdout) # <<"NOT_FOUND">>
        IN /\ (op = "shot" /\ pc = "resolve1" /\ pc' # "resolve1") =>
                 IF found
                 THEN /\ pc' = "window" /\ loc'.actualApp = Some(Trim(Get(runRes).stdout))
                      /\ \A i \in 1..Len(spawned') : spawned'[i].kind # "resolve2"
                 ELSE pc' = "resolve2"
           /\ (op = "shot" /\ pc = "resolve2" /\ pc' # "resolve2") =>
                 IF found
                 THEN pc' = "window" /\ loc'.actualApp = Some(Trim(Get(runRes).stdout))
                 ELSE pc' = "list"
           /\ \A i \in 1..Len(spawned) :
                 spawned[i].kind = "resolve2" => i = 2 /\ spawned[1].kind = "resolve1" ]_vars

C19_DeadlineIsTimeoutError ==
    [][ LET timedOut(r) ==
                /\ IsSome(r) /\ Get(r).isError
                /\ \E i \in 1..Len(Get(r).content) :
                      \E j \in 1..Len(Get(r).content[i].text) :
                         Get(r).content[i].text[j] \in {Lit("[TIMEOUT]"), Str(<<"[TIMEOUT]">>)}
            expires == proc.state = "running" /\ proc'.state = "killed"
        IN /\ (expires /\ pc \in {"rcapture", "listapps"}) => (pc' = "done" /\ timedOut(result'))
           /\ (expires /\ pc = "capture") => (pc' = "capture" /\ result' = None)
           /\ (pc = "capture" /\ proc.state = "killed" /\ pc' # "capture") =>
                 (pc' = "done" /\ timedOut(result')) ]_vars

\* capture-by-name has returned the timeout error after its capture was killed
C19_Witness ==
    /\ op = "shot" /\ pc = "done" /\ IsSome(result) /\ Get(result).isError
    /\ Get(result).content[1].text = <<Lit("Screenshot failed: "), Str(<<"[TIMEOUT]">>)>>
    /\ spawned[Len(spawned)].kind = "capture"

\* C20 as stated: on a supported platform, for an application name containing ; $( ) backquote & or |,
\* capture-by-name spawns only the osascript queries of the not-found path,
\* the name reaches each resolver script as the data of one string literal
\* (nothing of it is read as script code), the one shell line built from it
\* runs echo and tr and nothing else, and the call ends with the not-found
\* error.
C20_MetacharactersAreData ==
    (supportsScreenshots /\ op = "shot"
        /\ \E k \in 1..Len(req.appName) : req.appName[k] \in {";", "$(", ")", "backquote", "&", "|"}) =>
        /\ \A i \in 1..Len(spawned) :
              /\ spawned[i].exe = "osascript"
              /\ spawned[i].kind \in {"resolve1", "resolve2", "list"}
              /\ spawned[i].kind \in {"resolve1", "resolve2"} =>
                    ReadLiteral(spawned[i].val) =
                        [value |-> req.appName, closedEarly |-> FALSE, rest |-> <<>>]
              /\ spawned[i].kind = "resolve2" =>
                    spawned[i].sh = <<"echo", "<arg>", "|", "tr", "<arg>", "<arg>">>
              /\ spawned[i].kind # "resolve2" => spawned[i].sh = <<>>
        /\ pc = "done" =>
              /\ IsSome(result) /\ Get(result).isError
              /\ Get(result).content = <<TextItem(<<Lit("Screenshot failed: "), Str(<<"App not found">>)>>)>>

\* ------------------------------------------------------------------------ C21
\* C21 as stated: two captures are given the same output path only if they
\* are stamped in the same second and are for the same resolved application
\* or the same rectangle; a region capture's path holds its rectangle as
\* x_y_WIDTHxHEIGHT.
C21_SamePathSameTarget ==
    (probe.f = "paths" /\ IsSome(probe.value)) =>
        LET c1 == probe.args[1]
            c2 == probe.args[2]
            paths == Get(probe.value)
        IN /\ paths[1] = paths[2] =>
                 /\ c1.second = c2.second /\ c1.kind = c2.kind
                 /\ c1.app = c2.app /\ c1.rect = c2.rect
           /\ \A i \in 1..2 :
                 probe.args[i].kind = "region" =>
                     LET r == probe.args[i].rect
                     IN Contains(paths[i], NumText(r[1]) \o <<"_">> \o NumText(r[2]) \o <<"_">>
                                           \o NumText(r[3]) \o <<"x">> \o NumText(r[4]))

\* C21 amended: the same, with "the same resolved application" read as the
\* same name once every run of white space is replaced by one underscore.
C21_SamePathSameSafeName ==
    (probe.f = "paths" /\ IsSome(probe.value)) =>
        LET c1 == probe.args[1]
            c2 == probe.args[2]
            paths == Get(probe.value)
        IN /\ paths[1] = paths[2] =>
                 /\ c1.second = c2.second /\ c1.kind = c2.kind
                 /\ SafeName(c1.app) = SafeName(c2.app) /\ c1.rect = c2.rect
           /\ \A i \in 1..2 :
                 probe.args[i].kind = "region" =>
                     LET r == probe.args[i].rect
                     IN Contains(paths[i], NumText(r[1]) \o <<"_">> \o NumText(r[2]) \o <<"_">>
                                           \o NumText(r[3]) \o <<"x">> \o NumText(r[4]))

\* Two region captures of one rectangle in one second were given the same path.
C21_Witness ==
    /\ probe.f = "paths" /\ IsSome(probe.value)
    /\ Get(probe.value)[1] = Get(probe.value)[2]
    /\ probe.args[1].kind = "region" /\ probe.args[1].rect = <<11, 1, 50, 1>>

\* ------------------------------------------------------------------------ C22
\* What a finished request returned is fixed by what it owns: its arguments,
\* the lines it pushed, the result screenshotApp gave it and its output file.
SoloResult(c) ==
    c.pc = "done" =>
        /\ (c.op = "shot" /\ IsSome(c.appResult)) =>
              /\ Get(c.appResult).stdout = c.loc.lines
              /\ \E ev \in EnvMaxVals :
                    c.result = Some(RunScreenshotTail(Get(c.appResult), c.fs.out, c.req, ev).res)
        /\ (c.op = "region" /\ c.spawned # <<>> /\ c.spawned[Len(c.spawned)].kind = "rsips"
                /\ c.proc.state # "killed") =>
              \/ c.result = Some(CatchResult("region", "ENOENT"))
              \/ \E ev \in EnvMaxVals :
                    c.result = Some(embedFileContent(c.fs.out, Get(c.loc.filename),
                                        "Region screenshot successfully captured and saved to: ",
                                        c.req.inlineMaxBytes, c.req.returnData, ev).res)

\* C22: with two requests in flight, interleaved at every await, a step of
\* the running request leaves everything the suspended request owns as it
\* was, the suspended request resumes exactly as it was suspended, and each
\* finished request's result is the one its own arguments, OS responses and
\* file determine.
C22_NoSharedMemory ==
    /\ [][\/ parked' = parked
          \/ (parked' = Current /\ Current' = parked)]_vars
    /\ [](SoloResult(Current) /\ SoloResult(parked))

\* A capture by name has returned its success result while a region capture
\* that started before it returned is still waiting for screencapture.
C22_Witness ==
    /\ op = "shot" /\ pc = "done" /\ IsSome(appResult) /\ Get(appResult).success
    /\ Len(spawned) >= 6
    /\ parked.op = "region" /\ parked.pc = "rcapture" /\ parked.proc.state = "running"

\* ------------------------------------------------------------------------ C23
\* C23: once the output file of the operation under way exists, every step of
\* the engine leaves a file at that path; its content changes only when a
\* recompression replaces it.  (Finish starts the next request, whose output
\* path is another one.)
C23_OutputNeverRemoved ==
    [][(IsSome(fs.out) /\ op' # "idle") =>
          /\ IsSome(fs.out')
          /\ fs.out' # fs.out => (pc \in {"mv", "rsips"} /\ Get(fs.out').bytes = "recompressed")]_vars

\* A capture by name has returned after its file was replaced by the
\* recompressed copy.
C23_Witness ==
    /\ op = "shot" /\ pc = "done" /\ IsSome(fs.out) /\ Get(fs.out).bytes = "recompressed"
    /\ Len(spawned) = 8

\* ------------------------------------------------------------------------ C24
\* C24: a nonzero exit of the query gives isError; an empty reply gives the
\* one text item "[]"; otherwise the one text item holds an array with
\* exactly the non-empty trimmed pieces of the comma-separated reply, each as
\* often as it occurs, in ascending order.
C24_ListIsSortedTrimmedNames ==
    (probe.f = "listApps" /\ IsSome(probe.value)) =>
        LET r == probe.args[1]
            res == Get(probe.value)
        IN IF r.code # 0 THEN res.isError
           ELSE IF \A i \in 1..Len(r.stdout) : IsSpace(r.stdout[i])
           THEN res = OkResult(<<TextItem(<<Lit("[]")>>)>>)
           ELSE /\ ~res.isError /\ Len(res.content) = 1 /\ res.content[1].type = "text"
                /\ LET list == res.content[1].text[1].json
                       named == {c \in Pieces(r.stdout) : PieceName(r.stdout, c) # <<>>}
                   IN /\ \A i \in 1..Len(list) :
                            Cardinality({j \in 1..Len(list) : list[j] = list[i]})
                                = Cardinality({c \in named : PieceName(r.stdout, c) = list[i]})
                      /\ \A c \in named : \E i \in 1..Len(list) : list[i] = PieceName(r.stdout, c)
                      /\ \A i \in 1..Len(list), j \in 1..Len(list) :
                            i < j => ~LocaleLess(list[j], list[i])

\* A reply with white space, an empty piece and names out of order was
\* turned into the array of its three names.
C24_Witness ==
    /\ probe.f = "listApps" /\ IsSome(probe.value)
    /\ probe.args[1].code = 0 /\ probe.args[1].stdout = <<"z", ",", " ", "B", ",", " ", "a", "\n">>
    /\ Len(Get(probe.value).content[1].text[1].json) = 3

\* ------------------------------------------------------------------------ C25
\* C25 as stated: the first content item of every non-error result of
\* capture-by-name and capture-region is the text item that starts with the
\* operation's success prefix followed by a path ending in .png.
C25_FirstItemIsSuccessText ==
    (op \in {"shot", "region"} /\ pc = "done" /\ IsSome(result) /\ ~Get(result).isError) =>
        LET first == Get(result).content[1]
            prefix == IF op = "shot" THEN "Screenshot successfully taken and saved to: "
                      ELSE "Region screenshot successfully captured and saved to: "
        IN /\ first.type = "text"
           /\ Len(first.text) >= 2
           /\ first.text[1] = Lit(prefix)
           /\ first.text[2] = Path(Get(loc.filename))
           /\ Get(loc.filename).ext = ".png"

\* ------------------------------------------------------------------------ C26
\* C26 as stated: a capture-by-name or capture-region call whose compress
\* flag is absent or false never invokes the recompression utility.
C26_CompressOnlyOnRequest ==
    (op \in {"shot", "region"} /\ ~req.compress) =>
        /\ pc \notin {"sips", "mv", "rsips"}
        /\ \A i \in 1..Len(spawned) : spawned[i].exe # "sips"

\* C26 amended: without the compress flag the recompression utility is
\* invoked only by capture-by-name, and only when the process environment
\* holds COMPRESS=1.
C26_CompressOnRequestOrEnv ==
    (op \in {"shot", "region"} /\ ~req.compress
        /\ (pc \in {"sips", "mv", "rsips"} \/ \E i \in 1..Len(spawned) : spawned[i].exe = "sips")) =>
        (op = "shot" /\ env.compress = Some("1"))

\* A capture by name without the flag has run sips because COMPRESS=1 is set.
C26_Witness ==
    /\ op = "shot" /\ pc = "done" /\ ~req.compress /\ env.compress = Some("1")
    /\ \E i \in 1..Len(spawned) : spawned[i].exe = "sips"

\* ------------------------------------------------------------------------ C27
\* C27: each call's embedding step reads the variable anew.  For the first
\* call and for a later call made after the variable was changed: the file
\* is embedded exactly when its size is at most the threshold resolved from
\* the value the variable has at that call, and the limit shown in the
\* "not embedded" text is that threshold in KB.
C27_ThresholdReadEachCall ==
    (probe.f = "embedTwice") =>
        \A k \in 1..Len(probe.value) :
            LET size == probe.args[1]
                threshold == resolveInlineMaxBytes(probe.args[2], probe.args[2 + k])
                res == probe.value[k]
            IN IF size <= threshold
               THEN res.content[1].type = "image"
               ELSE /\ Len(res.content) = 1 /\ res.content[1].type = "text"
                    /\ res.content[1].text[3] = Lit(" (not embedded; ")
                    /\ res.content[1].text[6] = Num(RoundKB(threshold))

\* The variable went from 5 to 2048 between two calls for a 1500-byte file:
\* the first call did not embed it, the later call did.
C27_Witness ==
    /\ probe.f = "embedTwice" /\ Len(probe.value) = 2
    /\ probe.args = <<1500, None, Some(<<"5">>), Some(<<"2", "0", "4", "8">>)>>
    /\ probe.value[1].content[1].type = "text"
    /\ probe.value[2].content[1].type = "image"

\* ------------------------------------------------------------------------ C28
\* The subprocess steps of a capture by name, in order: a name found by the
\* first pass, a name found by the second pass, a name not found.
ShotOrders ==
    {<<"resolve1", "window", "front", "mkdir", "capture", "sips", "mv">>,
     <<"resolve1", "resolve2", "window", "front", "mkdir", "capture", "sips", "mv">>,
     <<"resolve1", "resolve2", "list">>}

\* C28: in a capture by name the subprocess steps are spawned in the order
\* resolve, window query, bring to front, ensure directory, capture,
\* recompression, each when no other is being awaited; the window
\* classification is not changed after the window query and it selects the
\* capture's arguments; the embedding decision is taken on the size the file
\* has when all subprocess steps are over.
C28_StepsInOrder ==
    /\ [](op = "shot" =>
            /\ \E o \in ShotOrders :
                  /\ Len(spawned) <= Len(o)
                  /\ \A i \in 1..Len(spawned) : spawned[i].kind = o[i]
            /\ \A i \in 1..Len(spawned) :
                  spawned[i].kind = "capture" =>
                      /\ spawned[i].flag = SelectCapture(loc.strategy, loc.windowInfo).flag
                      /\ spawned[i].val = SelectCapture(loc.strategy, loc.windowInfo).val
            /\ (pc = "done" /\ IsSome(appResult) /\ Get(appResult).success /\ IsSome(fs.out)) =>
                  /\ proc.state = "none"
                  /\ Get(result).content[1].type = "image"
                        <=> Get(fs.out).size <= resolveInlineMaxBytes(req.inlineMaxBytes, env.maxBytes)
                  /\ Get(result).content[1].type = "image"
                        => Get(result).content[1].data = [base64 |-> Get(fs.out)])
    /\ [][(op = "shot" /\ op' = "shot") =>
            /\ Len(spawned') > Len(spawned) => proc.state = "none"
            /\ pc \in {"front", "mkdir", "capture", "sips", "mv"} => loc.windowInfo' = loc.windowInfo]_vars

\* A capture by name went through every step, recompression included, and
\* embedded the recompressed file.
C28_Witness ==
    /\ op = "shot" /\ pc = "done" /\ Len(spawned) = 8
    /\ Get(result).content[1].type = "image"
    /\ Get(fs.out).bytes = "recompressed"

\* ------------------------------------------------------------------------ C29
\* How many subprocesses of kind k the operation has spawned.
Spawns(k) == Cardinality({i \in 1..Len(spawned) : spawned[i].kind = k})

\* C29 as stated: a capture by name spawns each resolver pass, the
\* diagnostic list query, the window query, bring-to-front and the capture
\* at most once, whatever their outcome, and once the application is
\* resolved the finished call has spawned exactly one window query, one
\* bring-to-front call and one capture.
C29_NoStepRepeated ==
    op = "shot" =>
        /\ \A k \in {"resolve1", "resolve2", "list", "window", "front", "mkdir", "capture", "sips", "mv"} :
              Spawns(k) <= 1
        /\ (pc = "done" /\ IsSome(loc.actualApp)) =>
              (Spawns("window") = 1 /\ Spawns("front") = 1 /\ Spawns("capture") = 1)

\* ------------------------------------------------------------------------ C30
\* C30 as stated: once the application is resolved, a failed or timed-out
\* window query is classified ERROR and the call goes on to bring-to-front;
\* a failed or timed-out bring-to-front is ignored and the call goes on to
\* the directory step; neither sets a result.  A finished call whose window
\* query failed has issued its capture, and if that capture succeeded the
\* result is not an error.
C30_LocatorFailuresAreNotFatal ==
    /\ [][(op = "shot" /\ Returned /\ Get(runRes).code # 0 /\ pc' # pc) =>
            /\ pc = "window" => (pc' = "front" /\ loc.windowInfo' = <<"ERROR">> /\ result' = None)
            /\ pc = "front" => (pc' = "mkdir" /\ result' = None)]_vars
    /\ [](op = "shot" /\ pc = "done" /\ IsSome(loc.actualApp) /\ loc.windowInfo = <<"ERROR">> =>
            /\ Spawns("capture") = 1
            /\ (IsSome(appResult) /\ Get(appResult).success) => ~Get(result).isError)

\* ------------------------------------------------------------------------ C31
\* The subprocess kinds of the application resolver, the diagnostic list,
\* the window locator and bring-to-front.
LocatorKinds == {"resolve1", "resolve2", "list", "window", "front"}

\* The result carries the image.
Embeds(r) == \E i \in 1..Len(r.content) : r.content[i].type = "image"

\* C31 as stated: a capture-region call spawns no application-resolution,
\* window-query or bring-to-front subprocess; its recompression is the
\* procedure of capture-by-name (the image utility is run with the deadline
\* of compressPng, recompressed bytes reach the output file only through the
\* move of the temporary sibling, and a call that leaves recompression
\* returns a non-error result); and for the captured file it embeds the
\* image exactly when capture-by-name would, for the same file, request
\* options and environment.
C31_RegionSharesPostProcessing ==
    /\ [](op = "region" =>
            /\ \A i \in 1..Len(spawned) : spawned[i].kind \notin LocatorKinds
            /\ \A i \in 1..Len(spawned) :
                  spawned[i].exe = "sips" =>
                      (spawned[i].mode = "run" /\ spawned[i].timeoutMs = SIPS_TIMEOUT)
            /\ (IsSome(fs.out) /\ Get(fs.out).bytes = "recompressed") =>
                  \E i \in 1..Len(spawned) : spawned[i].exe = "mv"
            /\ (pc = "done" /\ IsSome(result) /\ ~Get(result).isError /\ IsSome(fs.out)) =>
                  (Embeds(Get(result)) <=>
                   Embeds(RunScreenshotTail(AppOk(<<>>, Get(loc.filename), "region", None, FALSE),
                                            fs.out, req, env.maxBytes).res)))
    /\ [][(op = "region" /\ pc = "rsips" /\ pc' = "done") => ~Get(result').isError]_vars

\* ------------------------------------------------------------------------ C32
\* AppScreenshotOptions.timeoutMs: "Overall timeout (default 15000)"
OVERALL_TIMEOUT == 15000

RECURSIVE DeadlineSum(_)
\* The longest the subprocesses in s can have been awaited: each is awaited
\* until it exits or until its deadline, whichever comes first.
DeadlineSum(s) == IF s = <<>> THEN 0 ELSE Head(s).timeoutMs + DeadlineSum(Tail(s))

\* C32 as stated: in a capture-by-name call the deadlines of the
\* subprocesses awaited so far never add up to more than the overall
\* ceiling, so the call cannot have run longer than 15 s; and a finished call
\* that can have run longer has returned the error result with the text
\* "[TIMEOUT] Operation exceeded 15 second timeout".
C32_OverallCeiling ==
    op = "shot" =>
        /\ DeadlineSum(spawned) <= OVERALL_TIMEOUT
        /\ (pc = "done" /\ DeadlineSum(spawned) > OVERALL_TIMEOUT) =>
              Get(result) = CatchResult("shot", "[TIMEOUT]")

\* ------------------------------------------------------------------------ C33
\* The characters a part of a text contributes: none for an empty literal or
\* an empty interpolated string.
PartIsEmpty(p) ==
    \/ "lit" \in DOMAIN p /\ p.lit = ""
    \/ "str" \in DOMAIN p /\ p.str = <<>>

TextIsEmpty(item) == \A j \in 1..Len(item.text) : PartIsEmpty(item.text[j])

\* C33: whichever way one of the three operations ends (a subprocess that
\* fails, is killed at its deadline or cannot be started, an unsupported
\* platform, invalid arguments), its caller holds a result with at least one
\* content item, and a result flagged isError holds a text item whose text
\* is not empty.
C33_AlwaysAResultWithText ==
    (op # "idle" /\ pc = "done") =>
        /\ IsSome(result)
        /\ Len(Get(result).content) >= 1
        /\ Get(result).isError =>
              \E i \in 1..Len(Get(result).content) :
                  /\ Get(result).content[i].type = "text"
                  /\ ~TextIsEmpty(Get(result).content[i])

\* list-applications has returned the error result of a query that exited
\* non-zero and printed nothing: the text is the prefix alone
C33_Witness ==
    /\ op = "list" /\ pc = "done" /\ IsSome(result)
    /\ Get(result) = ErrorResult(<<Lit("App listing failed: "), Str(<<>>)>>)

\* ------------------------------------------------------------------------ C34
\* The strategy table's screencapture option for a strategy row and a
\* window-query answer.
TableOption(row, windowInfo) ==
    LET class == IF StartsWith(windowInfo, "WINDOW_ID:") THEN "StableId"
                 ELSE IF StartsWith(windowInfo, "BOUNDS:") THEN "Bounds"
                 ELSE IF windowInfo = <<"NO_WINDOWS">> THEN "NoWindows"
                 ELSE "QueryError"
    IN CASE row = "interactive" -> "-i"
         [] row = "id" -> IF class = "StableId" THEN "-l" ELSE "-w"
         [] row = "bounds" -> IF class = "Bounds" THEN "-R" ELSE "-w"
         [] row = "auto" -> CASE class = "StableId" -> "-l" [] class = "Bounds" -> "-R"
                              [] class = "NoWindows" -> "-i" [] OTHER -> "-w"

\* takeScreenshotSchema.windowStrategy: z.enum([...]).optional().default("auto"),
\* what the tool handler passes on for the argument st of a tool request
SchemaStrategy(st) == IF IsSome(st) THEN st ELSE Some("auto")

\* C34 as stated: a capture-by-name call whose request gives no strategy
\* reports the strategy auto and invokes, for each window classification,
\* the capture variant of the auto row.
C34_NoStrategyIsAuto ==
    (op = "shot" /\ req.windowStrategy = None /\ supportsScreenshots) =>
        /\ loc.strategy = "auto"
        /\ \A i \in 1..Len(spawned) :
              spawned[i].kind = "capture" => spawned[i].flag = TableOption("auto", loc.windowInfo)

\* C34 amended: a capture-by-name call whose request gives no strategy takes
\* the strategy named by the environment variable WINDOW_STRATEGY when it is
\* set, and auto when it is not; the capture variant it invokes is the one
\* of that row.  A call whose request names a strategy does not read the
\* variable; the tool handler always names one, auto when the tool request
\* has none.
C34_NoStrategyIsEnvThenAuto ==
    /\ \A st \in Strategies, es \in EnvStrategyVals :
          EffectiveStrategy(SchemaStrategy(st), es) = (IF IsSome(st) THEN Get(st) ELSE "auto")
    /\ (op = "shot" /\ supportsScreenshots) =>
        LET row == IF IsSome(req.windowStrategy) THEN Get(req.windowStrategy)
                   ELSE IF env.strategy = Some("bounds") THEN "bounds"
                   ELSE "auto"
        IN /\ IsSome(req.windowStrategy) <=> env.strategy = Unread
           /\ loc.strategy = row
           /\ \A i \in 1..Len(spawned) :
                 spawned[i].kind = "capture" => spawned[i].flag = TableOption(row, loc.windowInfo)

\* no strategy in the request, WINDOW_STRATEGY is bounds, the window has a
\* stable id: the capture is the frontmost fallback of the bounds row, where
\* the auto row captures by window id
C34_Witness ==
    /\ op = "shot" /\ req.windowStrategy = None /\ env.strategy = Some("bounds")
    /\ StartsWith(loc.windowInfo, "WINDOW_ID:")
    /\ \E i \in 1..Len(spawned) : spawned[i].kind = "capture" /\ spawned[i].flag = "-w"

\* ------------------------------------------------------------------------ C35
\* C35: a capture-by-name call with the empty application name has returned
\* an error result as soon as it is under way, and no subprocess was started
\* or attempted for it: no resolver query, no list query, no capture.
C35_EmptyNameSpawnsNothing ==
    (op = "shot" /\ req.appName = <<>>) =>
        /\ pc = "done" /\ IsSome(result) /\ Get(result).isError
        /\ spawned = <<>> /\ proc = NoProc /\ lastRun = "none"
        /\ \A c \in Commands : onPath[c] = "?"

\* on a supported platform the empty name was refused by screenshotApp
C35_Witness ==
    /\ op = "shot" /\ req.appName = <<>> /\ supportsScreenshots /\ pc = "done"
    /\ Get(result) = ErrorResult(<<Lit("Screenshot failed: "), Str(<<"No app name">>)>>)
    /\ IsSome(appResult) /\ ~Get(appResult).success

\* ------------------------------------------------------------------------ C36
\* C36 as stated: run() calls proc.kill() only on a subprocess that is still
\* running when the deadline expires, and once run has returned a result
\* nothing alters it: after the subprocess's own exit result was returned,
\* the timer makes no kill call.
C36_KillOnlyBeforeCompletion ==
    /\ [](probe.f = "run" =>
            \A i \in 1..Len(probe.value.kills) : probe.value.kills[i] = "running")
    /\ [][(probe.f = "run" /\ IsSome(probe.value.returned)) =>
            probe.value.returned' = probe.value.returned]_vars

=============================================================================
